---- MODULE Spec2Model ----
(***************************************************************************)
(* srcpack: the bundle assembly engine of bundle.ts.                       *)
(*                                                                         *)
(* Strings are sequences of one-character strings, so that line counting,  *)
(* trimming, number formatting and joining are computed character by       *)
(* character as the TypeScript does.                                       *)
(*                                                                         *)
(*   Spec           createBundle: the accounting loop and the rendering    *)
(*   SpecRerun      createBundle called twice by one process               *)
(*   SpecResolve    resolvePatterns: normalisation, glob expansion,        *)
(*                  ignore rules, binary filter, sort                      *)
(*   SpecNormalize  normalizePatterns over every prefix combination        *)
(*   SpecVeto       resolvePatterns on [p, "!" + p] and ["+" + p, "!" + p] *)
(*   SpecOrder      resolvePatterns on pattern arrays in every order       *)
(*   SpecBundleOne  bundleOne: resolvePatterns, resolvePrompt and          *)
(*                  createBundle, with the failures of the file system     *)
(*   SpecCli        main() of cli.ts: validation, emptying of the output   *)
(*                  directory, bundling, writing, upload                   *)
(*   SpecTokens     getValidTokens and ensureAuthenticated of gdrive.ts    *)
(***************************************************************************)
EXTENDS Integers, Sequences, FiniteSets, TLC

VARIABLES
    fsText,        \* createBundle: the text readFile returns for each path it reads
    files,         \* createBundle: the `files` argument
    options,       \* createBundle: the `options` argument
    pc,            \* position in createBundle
    index,         \* createBundle: the local `index`
    contentParts,  \* createBundle: the local `contentParts`
    currentLine,   \* createBundle: the local `currentLine`
    result,        \* the BundleResult returned
    previous,      \* the arguments and the BundleResult of an earlier createBundle call
    cwd,           \* resolvePatterns: the working directory (files, bytes, .gitignore)
    config,        \* resolvePatterns: the `config` argument
    rpc,           \* position in resolvePatterns
    patterns,      \* resolvePatterns: { include, exclude, force }
    gitignore,     \* resolvePatterns: { ignore, globPatterns } of loadGitignore
    fileSet,       \* resolvePatterns: the Set `files`, in insertion order
    resolved,      \* the list resolvePatterns returns
    args,          \* cli: the flags and the bundle names of process.argv
    cliConfig,     \* cli: what loadConfig returns
    outDirState,   \* cli: the output directory on disk (exists, entries)
    cpc,           \* position in main() of cli.ts
    bundleNames,   \* cli: the local `bundleNames`
    outputs,       \* cli: the local `outputs`
    destination,   \* cli: index of the upload destination being handled
    effects,       \* cli: what the run did outside the process, in order
    console,       \* cli: what the run printed, in order
    exitCode,      \* cli: the exit code, once the process has ended
    credentials,   \* gdrive: the tokens stored per client id
    clock,         \* gdrive: Date.now()
    tpc,           \* position in ensureAuthenticated / getValidTokens
    response,      \* gdrive: what the token endpoint answers to a refresh
    validTokens,   \* gdrive: what getValidTokens returned
    saved,         \* gdrive: the token sets written by saveTokens, in order
    loginStarted   \* gdrive: login(config) was called

bundleVars ==
    <<fsText, files, options, pc, index, contentParts, currentLine, result, previous>>

resolveVars == <<cwd, config, rpc, patterns, gitignore, fileSet, resolved>>

cliVars ==
    <<args, cliConfig, outDirState, cpc, bundleNames, outputs, destination, effects,
      console, exitCode>>

tokenVars == <<credentials, clock, tpc, response, validTokens, saved, loginStarted>>

-----------------------------------------------------------------------------
(* Bounds of the model *)

\* longest file text, in characters
MaxLen == 2
\* longest `files` list
MaxFiles == 2
\* longest pattern array of a bundle configuration
MaxPatterns == 2

-----------------------------------------------------------------------------
(* Characters and strings *)

NL == "\n"

\* the characters String.prototype.trim removes, among those the model uses
IsSpace(c) == c \in {" ", NL, "\t", "\r"}

StrsUpTo(alphabet, n) == UNION {[1..k -> alphabet] : k \in 0..n}

Max(a, b) == IF a >= b THEN a ELSE b
Min(a, b) == IF a <= b THEN a ELSE b

endsWith(s, c) == Len(s) > 0 /\ s[Len(s)] = c

startsWith(s, p) == Len(s) >= Len(p) /\ SubSeq(s, 1, Len(p)) = p

\* String.prototype.trim
trim(s) ==
    IF \A k \in 1..Len(s) : IsSpace(s[k]) THEN <<>>
    ELSE LET first == CHOOSE k \in 1..Len(s) :
                          ~IsSpace(s[k]) /\ \A j \in 1..(k - 1) : IsSpace(s[j])
             last  == CHOOSE k \in 1..Len(s) :
                          ~IsSpace(s[k]) /\ \A j \in (k + 1)..Len(s) : IsSpace(s[j])
         IN  SubSeq(s, first, last)

\* Array.prototype.join
RECURSIVE join(_, _)
join(parts, sep) ==
    IF Len(parts) = 0 THEN <<>>
    ELSE IF Len(parts) = 1 THEN parts[1]
    ELSE parts[1] \o sep \o join(Tail(parts), sep)

\* String.prototype.split on a one-character separator
RECURSIVE split(_, _)
split(s, c) ==
    IF \A k \in 1..Len(s) : s[k] # c THEN <<s>>
    ELSE LET k == CHOOSE k \in 1..Len(s) : s[k] = c /\ \A j \in 1..(k - 1) : s[j] # c
         IN  <<SubSeq(s, 1, k - 1)>> \o split(SubSeq(s, k + 1, Len(s)), c)

Range(xs) == {xs[k] : k \in 1..Len(xs)}

\* UTF-16 code units of the characters the model uses
CharCode ==
    (" " :> 32) @@ ("!" :> 33) @@ ("#" :> 35) @@ ("*" :> 42) @@ ("+" :> 43)
        @@ ("-" :> 45) @@ ("." :> 46) @@ ("/" :> 47) @@ ("B" :> 66) @@ ("_" :> 95)
        @@ ("a" :> 97) @@ ("b" :> 98) @@ ("e" :> 101) @@ ("k" :> 107)
        @@ ("s" :> 115) @@ ("x" :> 120)

\* the comparison of Array.prototype.sort without a comparator: by code units
RECURSIVE StrLess(_, _)
StrLess(a, b) ==
    IF b = <<>> THEN FALSE
    ELSE IF a = <<>> THEN TRUE
    ELSE IF a[1] = b[1] THEN StrLess(Tail(a), Tail(b))
    ELSE CharCode[a[1]] < CharCode[b[1]]

Digits == <<"0", "1", "2", "3", "4", "5", "6", "7", "8", "9">>

\* a number in a template literal: its decimal digits
RECURSIVE ToStr(_)
ToStr(n) ==
    IF n < 10 THEN <<Digits[n + 1]>>
    ELSE ToStr(n \div 10) \o <<Digits[(n % 10) + 1]>>

\* String.prototype.padEnd with spaces
RECURSIVE padEnd(_, _)
padEnd(s, n) == IF Len(s) >= n THEN s ELSE padEnd(s \o <<" ">>, n)

-----------------------------------------------------------------------------
(* bundle.ts: line counting and formatting *)

\* a slip: the last line counted even when the text ends with "\n"
countLines_plusOne(content) ==
    IF content = <<>> THEN 0
    ELSE Cardinality({k \in 1..Len(content) : content[k] = NL}) + 1

countLines(content) ==
    IF content = <<>> THEN 0
    ELSE LET newlines == Cardinality({k \in 1..Len(content) : content[k] = NL})
         IN  IF endsWith(content, NL) THEN newlines ELSE newlines + 1

IndexEmpty ==
    <<"#", " ", "I", "n", "d", "e", "x", NL, "#", " ", "(", "e", "m", "p", "t", "y", ")">>

IndexTitle(count) ==
    <<"#", " ", "I", "n", "d", "e", "x", " ", "(">> \o ToStr(count)
        \o <<" ", "f", "i", "l", "e">>
        \o (IF count = 1 THEN <<>> ELSE <<"s">>) \o <<")">>

IndexLine(i, entry) ==
    LET num      == padEnd(<<"[">> \o ToStr(i) \o <<"]">>, 5)
        lineWord == IF entry.lines = 1 THEN <<"l", "i", "n", "e">>
                    ELSE <<"l", "i", "n", "e", "s">>
    IN  <<"#", " ">> \o num \o <<" ">> \o entry.path
            \o <<" ", " ", "L">> \o ToStr(entry.startLine)
            \o <<"-", "L">> \o ToStr(entry.endLine)
            \o <<" ", "(">> \o ToStr(entry.lines) \o <<" ">> \o lineWord \o <<")">>

\* a slip: no special case for the empty index
formatIndex_noEmptyCase(idx) ==
    join(<<IndexTitle(Len(idx))>> \o [i \in 1..Len(idx) |-> IndexLine(i, idx[i])], <<NL>>)

formatIndex(idx) ==
    IF Len(idx) = 0 THEN IndexEmpty
    ELSE join(<<IndexTitle(Len(idx))>> \o [i \in 1..Len(idx) |-> IndexLine(i, idx[i])],
              <<NL>>)

formatSeparator(i, filePath) ==
    <<"#", "=", "=", ">", " ", "[">> \o ToStr(i) \o <<"]", " ">> \o filePath
        \o <<" ", "<", "=", "=">>

\* a slip: the trailing newline kept
stripNewline_kept(content) == content

\* content.endsWith("\n") ? content.slice(0, -1) : content
stripNewline(content) ==
    IF endsWith(content, NL) THEN SubSeq(content, 1, Len(content) - 1) ELSE content

PromptFrame == <<NL, NL, "-", "-", "-", NL, NL>>

-----------------------------------------------------------------------------
(* createBundle *)

Undefined == [defined |-> FALSE, text |-> <<>>]
Some(t) == [defined |-> TRUE, text |-> t]

\* a slip: the prompt not trimmed
normalizePrompt_untrimmed(p) ==
    IF p.defined /\ p.text # <<>> THEN Some(p.text) ELSE Undefined

\* options.prompt?.trim() || undefined
normalizePrompt(p) ==
    IF p.defined /\ trim(p.text) # <<>> THEN Some(trim(p.text)) ELSE Undefined

prompt == normalizePrompt(options.prompt)

\* a slip: the blank line after the divider not counted
promptLinesOf_two(p) == IF p.defined THEN countLines(p.text) + 2 ELSE 0

\* prompt ? countLines(prompt) + 3 : 0
promptLinesOf(p) == IF p.defined THEN countLines(p.text) + 3 ELSE 0

promptLines == promptLinesOf(prompt)

shift(idx, by) ==
    [k \in 1..Len(idx) |->
        [idx[k] EXCEPT !.startLine = @ + by, !.endLine = @ + by]]

\* a slip: the bundle ended by a newline
withPrompt_terminated(p, bundleContent) ==
    (IF p.defined THEN p.text \o PromptFrame \o bundleContent ELSE bundleContent) \o <<NL>>

\* prompt ? `${prompt}\n\n---\n\n${bundleContent}` : bundleContent
withPrompt(p, bundleContent) ==
    IF p.defined THEN p.text \o PromptFrame \o bundleContent ELSE bundleContent

\* a slip: endLine one past the last content line
entryFor_offByOne(filePath, content, cursor) ==
    LET lines            == countLines(content)
        contentStartLine == cursor + 1
    IN  [path      |-> filePath,
         lines     |-> lines,
         startLine |-> contentStartLine,
         endLine   |-> contentStartLine + lines]

\* endLine: contentStartLine + Math.max(0, lines - 1)
entryFor(filePath, content, cursor) ==
    LET lines            == countLines(content)
        contentStartLine == cursor + 1
    IN  [path      |-> filePath,
         lines     |-> lines,
         startLine |-> contentStartLine,
         endLine   |-> contentStartLine + Max(0, lines - 1)]

\* the state of the for loop: the locals index, contentParts, currentLine
LoopStart == [index |-> <<>>, contentParts |-> <<>>, currentLine |-> 1]

\* a slip: the line cursor kept outside the function, so that a later call goes
\* on counting where the earlier one stopped
iteration_sharedCursor(st, fs, fl) ==
    LET i        == Len(st.index)
        filePath == fl[i + 1]
        content  == fs[filePath]
        earlier  == previous.result.index
        cursor   == IF i = 0 /\ previous.called /\ earlier # <<>>
                    THEN earlier[Len(earlier)].endLine + 1
                    ELSE st.currentLine
        entry    == entryFor(filePath, content, cursor)
    IN  [index        |-> Append(st.index, entry),
         contentParts |-> st.contentParts
                              \o <<formatSeparator(i + 1, filePath), stripNewline(content)>>,
         currentLine  |-> entry.endLine + 1]

\* one iteration of the for loop, for the file at position Len(st.index) + 1
iteration(st, fs, fl) ==
    LET i        == Len(st.index)
        filePath == fl[i + 1]
        content  == fs[filePath]
        entry    == entryFor(filePath, content, st.currentLine)
    IN  [index        |-> Append(st.index, entry),
         contentParts |-> st.contentParts
                              \o <<formatSeparator(i + 1, filePath), stripNewline(content)>>,
         currentLine  |-> entry.endLine + 1]

\* a slip: the blank line after the index not counted
headerLinesOf_noBlank(count, pl) == count + 1 + pl

\* index.length + 2 + promptLines
headerLinesOf(count, pl) == count + 2 + pl

\* if (includeIndex) { ... return { content, index } }
renderWithIndex(st, p) ==
    LET shifted       == shift(st.index, headerLinesOf(Len(st.index), promptLinesOf(p)))
        indexBlock    == formatIndex(shifted)
        bundleContent == IF Len(shifted) = 0 THEN indexBlock
                         ELSE indexBlock \o <<NL, NL>> \o join(st.contentParts, <<NL>>)
    IN  [content |-> withPrompt(p, bundleContent), index |-> shifted]

\* a slip: the entries not shifted by the prompt when the index is omitted
renderWithoutIndex_unshifted(st, p) ==
    [content |-> withPrompt(p, join(st.contentParts, <<NL>>)), index |-> st.index]

\* the no-index tail of createBundle
renderWithoutIndex(st, p) ==
    LET bundleContent == join(st.contentParts, <<NL>>)
        shifted       == IF promptLinesOf(p) > 0 THEN shift(st.index, promptLinesOf(p))
                         ELSE st.index
    IN  [content |-> withPrompt(p, bundleContent), index |-> shifted]

RECURSIVE loop(_, _, _)
loop(st, fs, fl) ==
    IF Len(st.index) < Len(fl) THEN loop(iteration(st, fs, fl), fs, fl) ELSE st

\* createBundle as a function of what it reads: the file texts, the list, the options
createBundle(fs, fl, opts) ==
    LET st == loop(LoopStart, fs, fl)
        p  == normalizePrompt(opts.prompt)
    IN  IF opts.includeIndex THEN renderWithIndex(st, p) ELSE renderWithoutIndex(st, p)

Paths == {<<"a">>, <<"b">>}
FileChars == {"a", NL}
Texts == StrsUpTo(FileChars, MaxLen)

\* the prompts tried: none, blank ones, one line, padded, several lines
PromptTexts ==
    { <<>>,
      <<" ">>,
      <<NL, " ", NL>>,
      <<"p">>,
      <<" ", "p", " ">>,
      <<NL, "p", "p", NL>>,
      <<"p", NL, "p">>,
      <<"p", " ", "p", NL, NL, "p">> }
Prompts == {Undefined} \cup {Some(t) : t \in PromptTexts}

NoResult == [content |-> <<>>, index |-> <<>>]

\* no earlier call / an earlier call with its arguments and what it returned
NoCall ==
    [called |-> FALSE, files |-> <<>>, fsText |-> <<>>,
     options |-> [includeIndex |-> TRUE, prompt |-> Undefined], result |-> NoResult]

\* a working directory: the files a traversal meets, in its order, their bytes,
\* the .gitignore text, the paths whose stat, open or read fails, and the files
\* a prompt path may name, with their text
EmptyDir ==
    [listing |-> <<>>, bytes |-> <<>>, gitignore |-> Undefined, unreadable |-> {},
     promptFiles |-> <<>>]

\* resolvePatterns not running
ResolveIdle ==
    /\ cwd = EmptyDir
    /\ config = [shape |-> "array", single |-> <<>>, list |-> <<>>]
    /\ rpc = "idle"
    /\ patterns = [include |-> <<>>, exclude |-> <<>>, force |-> <<>>]
    /\ gitignore = [ignore |-> <<>>, globPatterns |-> <<>>]
    /\ fileSet = <<>>
    /\ resolved = <<>>

\* main() of cli.ts not running
CliIdle ==
    /\ args = [dryRun |-> FALSE, noUpload |-> FALSE,
               emptyOutDirFlag |-> [defined |-> FALSE, value |-> TRUE],
               requestedBundles |-> <<>>]
    /\ cliConfig = [root |-> <<>>, bundles |-> <<>>, outDir |-> <<>>,
                    emptyOutDir |-> [defined |-> FALSE, value |-> TRUE], upload |-> <<>>]
    /\ outDirState = [exists |-> FALSE, entries |-> {}]
    /\ cpc = "idle"
    /\ bundleNames = <<>>
    /\ outputs = <<>>
    /\ destination = 1
    /\ effects = <<>>
    /\ console = <<>>
    /\ exitCode = -1

\* no token call running
TokensIdle ==
    /\ credentials = <<>>
    /\ clock = 0
    /\ tpc = "idle"
    /\ response = [ok |-> FALSE, expires_in |-> 0, delay |-> 0]
    /\ validTokens = [returned |-> FALSE]
    /\ saved = <<>>
    /\ loginStarted = FALSE

loopState == [index |-> index, contentParts |-> contentParts, currentLine |-> currentLine]

Init ==
    /\ files \in StrsUpTo(Paths, MaxFiles)
    /\ fsText \in [{files[k] : k \in 1..Len(files)} -> Texts]
    /\ options \in [includeIndex : BOOLEAN, prompt : Prompts]
    /\ pc = "loop"
    /\ index = LoopStart.index
    /\ contentParts = LoopStart.contentParts
    /\ currentLine = LoopStart.currentLine
    /\ result = NoResult
    /\ previous = NoCall
    /\ ResolveIdle
    /\ CliIdle
    /\ TokensIdle

\* for (let i = 0; i < files.length; i++) { ... }
ReadFile ==
    /\ pc = "loop"
    /\ Len(index) < Len(files)
    /\ files[Len(index) + 1] \in DOMAIN fsText
    /\ LET st == iteration(loopState, fsText, files)
       IN  /\ index' = st.index
           /\ contentParts' = st.contentParts
           /\ currentLine' = st.currentLine
    /\ UNCHANGED <<fsText, files, options, pc, result, previous>>
    /\ UNCHANGED resolveVars
    /\ UNCHANGED <<cliVars, tokenVars>>

\* readFile rejects (the file is gone or may not be read): createBundle rejects
\* and returns nothing
ReadFileFails ==
    /\ pc = "loop"
    /\ Len(index) < Len(files)
    /\ files[Len(index) + 1] \notin DOMAIN fsText
    /\ pc' = "rejected"
    /\ UNCHANGED <<fsText, files, options, index, contentParts, currentLine, result, previous>>
    /\ UNCHANGED resolveVars
    /\ UNCHANGED <<cliVars, tokenVars>>

RenderWithIndex ==
    /\ pc = "loop"
    /\ Len(index) = Len(files)
    /\ options.includeIndex
    /\ result' = renderWithIndex(loopState, prompt)
    /\ index' = result'.index
    /\ pc' = "done"
    /\ UNCHANGED <<fsText, files, options, contentParts, currentLine, previous>>
    /\ UNCHANGED resolveVars
    /\ UNCHANGED <<cliVars, tokenVars>>

RenderWithoutIndex ==
    /\ pc = "loop"
    /\ Len(index) = Len(files)
    /\ ~options.includeIndex
    /\ result' = renderWithoutIndex(loopState, prompt)
    /\ index' = result'.index
    /\ pc' = "done"
    /\ UNCHANGED <<fsText, files, options, contentParts, currentLine, previous>>
    /\ UNCHANGED resolveVars
    /\ UNCHANGED <<cliVars, tokenVars>>

Next == ReadFile \/ RenderWithIndex \/ RenderWithoutIndex

vars == <<bundleVars, resolveVars, cliVars, tokenVars>>

Spec == Init /\ [][Next]_vars

-----------------------------------------------------------------------------
(* createBundle called a second time by the same process *)

RerunFiles == {<<>>, <<<<"a">>>>, <<<<"a">>, <<"b">>>>, <<<<"b">>, <<"a">>>>}
RerunTexts == {<<>>, <<"a", NL>>, <<"a", NL, "a">>}
RerunOptions == [includeIndex : BOOLEAN, prompt : {Undefined, Some(<<"p">>)}]

InitRerun ==
    /\ files \in RerunFiles
    /\ fsText \in [{files[k] : k \in 1..Len(files)} -> RerunTexts]
    /\ options \in RerunOptions
    /\ pc = "loop"
    /\ index = LoopStart.index
    /\ contentParts = LoopStart.contentParts
    /\ currentLine = LoopStart.currentLine
    /\ result = NoResult
    /\ previous = NoCall
    /\ ResolveIdle
    /\ CliIdle
    /\ TokensIdle

\* the caller keeps what the first call returned and calls createBundle again,
\* for the same or another bundle; the call starts with fresh locals
CallAgain ==
    /\ pc = "done"
    /\ ~previous.called
    /\ previous' = [called |-> TRUE, files |-> files, fsText |-> fsText,
                    options |-> options, result |-> result]
    /\ files' \in RerunFiles
    /\ fsText' \in [{files'[k] : k \in 1..Len(files')} -> RerunTexts]
    /\ options' \in RerunOptions
    /\ pc' = "loop"
    /\ index' = LoopStart.index
    /\ contentParts' = LoopStart.contentParts
    /\ currentLine' = LoopStart.currentLine
    /\ result' = NoResult
    /\ UNCHANGED resolveVars
    /\ UNCHANGED <<cliVars, tokenVars>>

NextRerun == ReadFile \/ RenderWithIndex \/ RenderWithoutIndex \/ CallAgain

SpecRerun == InitRerun /\ [][NextRerun]_vars

-----------------------------------------------------------------------------
(* Glob matching as picomatch and fast-glob do it, segment by segment *)

\* one pattern segment against one path segment; "*" is any run of characters
RECURSIVE segMatch(_, _)
segMatch(p, t) ==
    IF p = <<>> THEN t = <<>>
    ELSE IF p[1] = "*" THEN segMatch(Tail(p), t) \/ (t # <<>> /\ segMatch(p, Tail(t)))
    ELSE t # <<>> /\ p[1] = t[1] /\ segMatch(Tail(p), Tail(t))

\* without the dot option a wildcard does not match a leading "."
dotAllowed(p, t, dot) ==
    dot \/ t = <<>> \/ t[1] # "." \/ (p # <<>> /\ p[1] = ".")

Globstar == <<"*", "*">>

\* pattern segments against path segments; a "**" segment is any number of segments
RECURSIVE segsMatch(_, _, _)
segsMatch(P, S, dot) ==
    IF P = <<>> THEN S = <<>>
    ELSE IF P[1] = Globstar
         THEN \/ segsMatch(Tail(P), S, dot)
              \/ S # <<>> /\ dotAllowed(<<>>, S[1], dot) /\ segsMatch(P, Tail(S), dot)
    ELSE S # <<>> /\ dotAllowed(P[1], S[1], dot) /\ segMatch(P[1], S[1])
             /\ segsMatch(Tail(P), Tail(S), dot)

\* picomatch(p)(path), default options: dot is false
picomatch(p, path) == segsMatch(split(p, "/"), split(path, "/"), FALSE)

\* a fast-glob pattern (positive or ignore) against a path, with dot: true
globMatches(p, path) == segsMatch(split(p, "/"), split(path, "/"), TRUE)

\* glob(patterns, { cwd, onlyFiles: true, dot: true, ignore }): the files of the
\* directory, in the order the traversal meets them, that match a pattern and
\* no ignore pattern; a pattern starting with "!" is itself an ignore pattern
glob(pats, dir, ignored) ==
    LET positive == SelectSeq(pats, LAMBDA q : ~startsWith(q, <<"!">>))
        negative == Range(ignored)
                        \cup {Tail(q) : q \in {r \in Range(pats) : startsWith(r, <<"!">>)}}
    IN  SelectSeq(dir.listing,
                  LAMBDA f : /\ \E q \in Range(positive) : globMatches(q, f)
                             /\ \A n \in negative : ~globMatches(n, f))

-----------------------------------------------------------------------------
(* The `ignore` package: rules of a .gitignore text and their evaluation *)

Lower == ("B" :> "b")
lower(c) == IF c \in DOMAIN Lower THEN Lower[c] ELSE c
lowerAll(t) == [k \in 1..Len(t) |-> lower(t[k])]

RECURSIVE trimEnd(_)
trimEnd(t) == IF t # <<>> /\ IsSpace(t[Len(t)]) THEN trimEnd(SubSeq(t, 1, Len(t) - 1)) ELSE t

\* a line that adds a rule: not empty, not blank, not a comment
isRule(line) ==
    /\ line # <<>>
    /\ \E k \in 1..Len(line) : ~IsSpace(line[k])
    /\ line[1] # "#"

\* a rule: negated by a leading "!", trailing spaces dropped, a trailing "/" makes
\* it match directories only, a leading or inner "/" anchors it at the root
parseRule(line) ==
    LET negative == startsWith(line, <<"!">>)
        body     == trimEnd(IF negative THEN Tail(line) ELSE line)
        dirOnly  == endsWith(body, "/")
        noTail   == IF dirOnly THEN SubSeq(body, 1, Len(body) - 1) ELSE body
        rooted   == startsWith(noTail, <<"/">>)
        segs     == split(IF rooted THEN Tail(noTail) ELSE noTail, "/")
    IN  [negative |-> negative,
         dirOnly  |-> dirOnly,
         anchored |-> rooted \/ Len(segs) > 1,
         segs     |-> segs]

\* ignore().add(content)
parseIgnore(content) ==
    LET lines == SelectSeq(split(content, NL), isRule)
    IN  [k \in 1..Len(lines) |-> parseRule(lines[k])]

\* an anchored rule against a path: a trailing "**" is everything inside (at
\* least one segment), any other "**" is zero or more directories; wildcards
\* match dotfiles and letters match without regard to case
RECURSIVE ruleSegsMatch(_, _)
ruleSegsMatch(P, S) ==
    IF P = <<>> THEN S = <<>>
    ELSE IF P[1] = Globstar
         THEN IF Len(P) = 1 THEN S # <<>>
              ELSE \/ ruleSegsMatch(Tail(P), S)
                   \/ S # <<>> /\ ruleSegsMatch(P, Tail(S))
    ELSE S # <<>> /\ segMatch(lowerAll(P[1]), lowerAll(S[1]))
             /\ ruleSegsMatch(Tail(P), Tail(S))

ruleMatches(rule, segs, isDir) ==
    /\ rule.dirOnly => isDir
    /\ IF rule.anchored THEN ruleSegsMatch(rule.segs, segs)
       ELSE segMatch(lowerAll(rule.segs[1]), lowerAll(segs[Len(segs)]))

\* the last matching rule decides
RECURSIVE testOne(_, _, _, _)
testOne(rules, segs, isDir, ignored) ==
    IF rules = <<>> THEN ignored
    ELSE testOne(Tail(rules), segs, isDir,
                 IF ruleMatches(rules[1], segs, isDir) THEN ~rules[1].negative
                 ELSE ignored)

\* ig.ignores(path): an ignored parent directory ignores everything below it
ignores(rules, path) ==
    LET segs == split(path, "/")
    IN  \/ \E k \in 1..(Len(segs) - 1) : testOne(rules, SubSeq(segs, 1, k), TRUE, FALSE)
        \/ testOne(rules, segs, FALSE, FALSE)

-----------------------------------------------------------------------------
(* bundle.ts: pattern resolution *)

BINARY_CHECK_SIZE == 8192

\* a slip: the whole file searched for a null byte
isBinary_wholeFile(bytes) ==
    /\ bytes.size # 0
    /\ bytes.nulls # {}

\* isBinary: a null byte among the first min(size, BINARY_CHECK_SIZE) bytes
isBinary(bytes) ==
    /\ bytes.size # 0
    /\ \E o \in bytes.nulls : o < Min(bytes.size, BINARY_CHECK_SIZE)

\* a slip: of an object's include list only the first pattern taken
rawPatterns_objectFirst(cfg) ==
    IF cfg.shape = "string" THEN <<cfg.single>>
    ELSE IF cfg.shape = "array" THEN cfg.list
    ELSE IF cfg.shape = "object-array" THEN <<cfg.list[1]>>
    ELSE <<cfg.single>>

\* the raw pattern list of the three configuration shapes
rawPatterns(cfg) ==
    IF cfg.shape = "string" THEN <<cfg.single>>
    ELSE IF cfg.shape = "array" THEN cfg.list
    ELSE IF cfg.shape = "object-array" THEN cfg.list
    ELSE <<cfg.single>>

\* a slip: every leading prefix character stripped, not only the first
RECURSIVE stripPrefixes(_)
stripPrefixes(q) ==
    IF q # <<>> /\ q[1] \in {"!", "+"} THEN stripPrefixes(Tail(q)) ELSE q

normalizePatterns_stripAll(cfg) ==
    LET raw == rawPatterns(cfg)
        ex  == SelectSeq(raw, LAMBDA q : startsWith(q, <<"!">>))
        fo  == SelectSeq(raw, LAMBDA q : ~startsWith(q, <<"!">>) /\ startsWith(q, <<"+">>))
    IN  [include |-> SelectSeq(raw, LAMBDA q : ~startsWith(q, <<"!">>)
                                              /\ ~startsWith(q, <<"+">>)),
         exclude |-> [k \in 1..Len(ex) |-> stripPrefixes(ex[k])],
         force   |-> [k \in 1..Len(fo) |-> stripPrefixes(fo[k])]]

\* a slip: an exclude pattern written first, with nothing before it, is dropped
normalizePatterns_excludeEarlierOnly(cfg) ==
    LET raw == rawPatterns(cfg)
        ex  == SelectSeq(IF raw = <<>> THEN raw ELSE Tail(raw),
                         LAMBDA q : startsWith(q, <<"!">>))
        fo  == SelectSeq(raw, LAMBDA q : ~startsWith(q, <<"!">>) /\ startsWith(q, <<"+">>))
    IN  [include |-> SelectSeq(raw, LAMBDA q : ~startsWith(q, <<"!">>)
                                              /\ ~startsWith(q, <<"+">>)),
         exclude |-> [k \in 1..Len(ex) |-> Tail(ex[k])],
         force   |-> [k \in 1..Len(fo) |-> Tail(fo[k])]]

normalizePatterns(cfg) ==
    LET raw == rawPatterns(cfg)
        ex  == SelectSeq(raw, LAMBDA q : startsWith(q, <<"!">>))
        fo  == SelectSeq(raw, LAMBDA q : ~startsWith(q, <<"!">>) /\ startsWith(q, <<"+">>))
    IN  [include |-> SelectSeq(raw, LAMBDA q : ~startsWith(q, <<"!">>)
                                              /\ ~startsWith(q, <<"+">>)),
         exclude |-> [k \in 1..Len(ex) |-> Tail(ex[k])],
         force   |-> [k \in 1..Len(fo) |-> Tail(fo[k])]]

\* isExcluded(filePath, excludeMatchers)
isExcluded(filePath, exclude) == \E k \in 1..Len(exclude) : picomatch(exclude[k], filePath)

\* /^[\w.-]+$/
WordChars == {"B", "_", "a", "b", "e", "k", "s", "x", ".", "-"}

contains(t, c) == \E k \in 1..Len(t) : t[k] = c

\* trimmed.endsWith("/") ? trimmed.slice(0, -1) : trimmed
dirName(line) ==
    LET trimmed == trim(line)
    IN  IF endsWith(trimmed, "/") THEN SubSeq(trimmed, 1, Len(trimmed) - 1) ELSE trimmed

\* a line that is turned into a prune glob: a plain directory name
isSimpleName(line) ==
    LET trimmed == trim(line)
    IN  /\ trimmed # <<>>
        /\ ~startsWith(trimmed, <<"#">>)
        /\ ~startsWith(trimmed, <<"/">>)
        /\ \A c \in {"*", "?", "[", "/", "\\"} : ~contains(trimmed, c)
        /\ dirName(line) # <<>>
        /\ \A k \in 1..Len(dirName(line)) : dirName(line)[k] \in WordChars

\* a slip: directory names turned into prune globs whatever else the file holds
gitignoreToGlobPatterns_noNegationCheck(lines) ==
    LET kept == SelectSeq(lines, isSimpleName)
    IN  [k \in 1..Len(kept) |->
            <<"*", "*", "/">> \o dirName(kept[k]) \o <<"/", "*", "*">>]

gitignoreToGlobPatterns(lines) ==
    IF \E k \in 1..Len(lines) : startsWith(trim(lines[k]), <<"!">>) THEN <<>>
    ELSE LET kept == SelectSeq(lines, isSimpleName)
         IN  [k \in 1..Len(kept) |->
                 <<"*", "*", "/">> \o dirName(kept[k]) \o <<"/", "*", "*">>]

GitignoreFile == <<".gitignore">>

\* loadGitignore: the catch block takes every failure of readFile, so a missing
\* .gitignore and one that cannot be read both give no rule and no prune glob
loadGitignore(dir) ==
    IF dir.gitignore.defined /\ GitignoreFile \notin dir.unreadable
    THEN [ignore       |-> parseIgnore(dir.gitignore.text),
          globPatterns |-> gitignoreToGlobPatterns(split(dir.gitignore.text, NL))]
    ELSE [ignore |-> <<>>, globPatterns |-> <<>>]

\* files.add(match) for every match, a Set keeping insertion order
addAll(set, matches) ==
    set \o SelectSeq(matches, LAMBDA f : f \notin Range(set))

\* the include matches isBinary is called on: not excluded, not ignored
includeCandidates(pat, ig, dir) ==
    IF Len(pat.include) > 0
    THEN SelectSeq(glob(pat.include, dir, ig.globPatterns),
                   LAMBDA f : ~isExcluded(f, pat.exclude) /\ ~ignores(ig.ignore, f))
    ELSE <<>>

\* the force matches isBinary is called on: not excluded
forceCandidates(pat, dir) ==
    IF Len(pat.force) > 0
    THEN SelectSeq(glob(pat.force, dir, <<>>), LAMBDA f : ~isExcluded(f, pat.exclude))
    ELSE <<>>

\* the matches of the include patterns that pass the three filters
includeMatches(pat, ig, dir) ==
    SelectSeq(includeCandidates(pat, ig, dir), LAMBDA f : ~isBinary(dir.bytes[f]))

\* a slip: the force matches not tested against the exclude matchers
forceMatches_noExclude(pat, dir) ==
    IF Len(pat.force) > 0
    THEN SelectSeq(glob(pat.force, dir, <<>>), LAMBDA f : ~isBinary(dir.bytes[f]))
    ELSE <<>>

\* a slip: the prune globs of .gitignore passed to the force expansion too
forceMatches_pruned(pat, dir) ==
    IF Len(pat.force) > 0
    THEN SelectSeq(glob(pat.force, dir, loadGitignore(dir).globPatterns),
                   LAMBDA f : /\ ~isExcluded(f, pat.exclude)
                              /\ ~isBinary(dir.bytes[f]))
    ELSE <<>>

\* the matches of the force patterns that pass the exclude and binary filters
forceMatches(pat, dir) ==
    SelectSeq(forceCandidates(pat, dir), LAMBDA f : ~isBinary(dir.bytes[f]))

\* a slip: the comparison of the sort turned around
RECURSIVE sort_descending(_)
sort_descending(xs) ==
    IF xs = <<>> THEN <<>>
    ELSE LET m == CHOOSE i \in 1..Len(xs) : \A j \in 1..Len(xs) : ~StrLess(xs[i], xs[j])
         IN  <<xs[m]>> \o sort_descending(SubSeq(xs, 1, m - 1) \o SubSeq(xs, m + 1, Len(xs)))

\* a slip: the Set spread without sorting
sort_insertionOrder(xs) == xs

\* [...files].sort()
RECURSIVE sort(_)
sort(xs) ==
    IF xs = <<>> THEN <<>>
    ELSE LET m == CHOOSE i \in 1..Len(xs) : \A j \in 1..Len(xs) : ~StrLess(xs[j], xs[i])
         IN  <<xs[m]>> \o sort(SubSeq(xs, 1, m - 1) \o SubSeq(xs, m + 1, Len(xs)))

\* what resolvePatterns returns when it does not reject, as a function of the
\* configuration and the directory
resolvePatterns(cfg, dir) ==
    LET pat == normalizePatterns(cfg)
        ig  == loadGitignore(dir)
    IN  sort(addAll(addAll(<<>>, includeMatches(pat, ig, dir)), forceMatches(pat, dir)))

\* resolvePatterns of src/bundle.ts, which passes no ignore option to the include
\* expansion and leaves every include match to the ignore evaluator
resolvePatternsUnpruned(cfg, dir) ==
    LET pat == normalizePatterns(cfg)
        ig  == [ignore |-> loadGitignore(dir).ignore, globPatterns |-> <<>>]
    IN  sort(addAll(addAll(<<>>, includeMatches(pat, ig, dir)), forceMatches(pat, dir)))

-----------------------------------------------------------------------------
(* The directories and configurations resolvePatterns is run on *)

FileA   == <<"a">>
FileBK  == <<"b", "/", "k">>
FileBX  == <<"b", "/", "x">>
FileSA  == <<"s", "/", "a">>
FileSE  == <<"s", "/", ".", "e">>

TextBytes   == [size |-> 12, nulls |-> {}]
EmptyBytes  == [size |-> 0, nulls |-> {}]
BinaryBytes == [size |-> 12, nulls |-> {3}]

\* files around the end of the checked prefix: a null byte as the last checked
\* byte, a null byte only past the prefix, a one-byte file that is a null byte
LastCheckedNull == [size |-> 8192, nulls |-> {8191}]
LateNull        == [size |-> 9000, nulls |-> {8192, 8999}]
OneNull         == [size |-> 1, nulls |-> {0}]

AllText(listing) == [f \in Range(listing) |-> TextBytes]

\* .gitignore texts: a plain directory name (pruned during traversal), a
\* directory-only rule, a glob rule with a negation after it, a comment
IgnoreB        == <<"b">>
IgnoreBSlash   == <<"b", "/", NL>>
IgnoreNegation == <<"b", "/", "*", "*", NL, "!", "b", "/", "k", NL>>
IgnoreK        == <<"#", " ", "x", NL, "k", NL>>
\* a directory name written after a space
IgnoreSpaceB   == <<" ", "b", NL>>

\* a directory name and its negation
IgnoreUndo     == <<"b", NL, "!", "b", NL>>

IgnoreFiles ==
    {Undefined, Some(<<>>), Some(IgnoreB), Some(IgnoreBSlash), Some(IgnoreNegation),
     Some(IgnoreK), Some(IgnoreSpaceB), Some(IgnoreUndo)}

Listings ==
    { <<>>,
      <<FileSA, FileBK>>,
      <<FileA, FileBK, FileBX, FileSE, FileSA>>,
      <<FileBX, FileSA, FileA, FileSE, FileBK>> }

\* the bytes of the files: all text, or one empty file and one binary file, or
\* files with null bytes around the end of the checked prefix
BytesOf(listing) ==
    {AllText(listing)}
        \cup (IF {FileBX, FileA} \subseteq Range(listing)
              THEN {[AllText(listing) EXCEPT ![FileBX] = BinaryBytes, ![FileA] = EmptyBytes],
                    [AllText(listing) EXCEPT ![FileA] = LastCheckedNull, ![FileBK] = LateNull,
                                             ![FileBX] = OneNull, ![FileSA] = EmptyBytes]}
              ELSE {})

Dirs ==
    UNION {{[listing |-> l, bytes |-> b, gitignore |-> g, unreadable |-> {},
             promptFiles |-> <<>>] : b \in BytesOf(l), g \in IgnoreFiles} :
               l \in Listings}

PatAll     == <<"*", "*", "/", "*">>
PatB       == <<"b", "/", "*">>
PatForceB  == <<"+", "b", "/", "*">>
PatForceK  == <<"+", "*", "*", "/", "k">>
PatNotBX   == <<"!", "b", "/", "x">>
PatS       == <<"s", "/", "*">>

PatternPool == {PatAll, PatB, PatForceB, PatForceK, PatNotBX, PatS}

\* z.array(z.string().min(1)).min(1)
PatternLists == UNION {[1..k -> PatternPool] : k \in 1..MaxPatterns}

\* an optional boolean
Unset  == [defined |-> FALSE, value |-> TRUE]
Set(b) == [defined |-> TRUE, value |-> b]

\* the optional fields of the object shape: outfile, index, prompt
NoFields   == [outfile |-> Undefined, index |-> Unset, prompt |-> Undefined]
SomeFields == [outfile |-> Some(<<"o">>), index |-> Set(FALSE), prompt |-> Some(<<"p">>)]
ObjectFields == {NoFields, SomeFields}

\* BundleConfigInput: a pattern, a list of patterns, or an object with `include`
\* (a pattern or a list) and the optional fields
ConfigOf(shape, single, list, fields) ==
    [shape |-> shape, single |-> single, list |-> list,
     outfile |-> fields.outfile, index |-> fields.index, prompt |-> fields.prompt]

ConfigsOver(pool, lists, objectLists, fields) ==
    {ConfigOf("array", <<>>, l, NoFields) : l \in lists}
        \cup {ConfigOf("string", q, <<>>, NoFields) : q \in pool}
        \cup {ConfigOf("object-string", q, <<>>, f) : q \in pool, f \in fields}
        \cup {ConfigOf("object-array", <<>>, l, f) : l \in objectLists, f \in fields}

\* the include lists of the object shape: every single pattern, and the lists
\* over one include and one force pattern
ObjectLists ==
    {m \in PatternLists : Len(m) = 1 \/ Range(m) \subseteq {PatS, PatForceB}}

Configs == ConfigsOver(PatternPool, PatternLists, ObjectLists, ObjectFields)

BundleIdle ==
    /\ fsText = <<>>
    /\ files = <<>>
    /\ options = [includeIndex |-> TRUE, prompt |-> Undefined]
    /\ pc = "idle"
    /\ index = <<>>
    /\ contentParts = <<>>
    /\ currentLine = 1
    /\ result = NoResult
    /\ previous = NoCall

InitResolve ==
    /\ cwd \in Dirs
    /\ config \in Configs
    /\ rpc = "start"
    /\ patterns = [include |-> <<>>, exclude |-> <<>>, force |-> <<>>]
    /\ gitignore = [ignore |-> <<>>, globPatterns |-> <<>>]
    /\ fileSet = <<>>
    /\ resolved = <<>>
    /\ BundleIdle
    /\ CliIdle
    /\ TokensIdle

\* picomatch(p) and glob(patterns) throw a TypeError for an empty pattern
throwsOnEmpty(pats) == \E k \in 1..Len(pats) : pats[k] = <<>>

\* isBinary rejects when stat, open or read fails for a file it is called on
isBinaryRejects(candidates, dir) == \E k \in 1..Len(candidates) : candidates[k] \in dir.unreadable

\* normalizePatterns, the exclude matchers, loadGitignore
Normalize ==
    /\ rpc = "start"
    /\ ~throwsOnEmpty(normalizePatterns(config).exclude)
    /\ patterns' = normalizePatterns(config)
    /\ gitignore' = loadGitignore(cwd)
    /\ rpc' = "include"
    /\ UNCHANGED <<cwd, config, fileSet, resolved>>
    /\ UNCHANGED bundleVars
    /\ UNCHANGED <<cliVars, tokenVars>>

\* exclude.map((p) => picomatch(p)) throws
NormalizeFails ==
    /\ rpc = "start"
    /\ throwsOnEmpty(normalizePatterns(config).exclude)
    /\ rpc' = "rejected"
    /\ UNCHANGED <<cwd, config, patterns, gitignore, fileSet, resolved>>
    /\ UNCHANGED bundleVars
    /\ UNCHANGED <<cliVars, tokenVars>>

\* if (include.length > 0) { ... }
ExpandInclude ==
    /\ rpc = "include"
    /\ ~isBinaryRejects(includeCandidates(patterns, gitignore, cwd), cwd)
    /\ fileSet' = addAll(fileSet, includeMatches(patterns, gitignore, cwd))
    /\ rpc' = "force"
    /\ UNCHANGED <<cwd, config, patterns, gitignore, resolved>>
    /\ UNCHANGED bundleVars
    /\ UNCHANGED <<cliVars, tokenVars>>

\* isBinary rejects for an include match
ExpandIncludeFails ==
    /\ rpc = "include"
    /\ isBinaryRejects(includeCandidates(patterns, gitignore, cwd), cwd)
    /\ rpc' = "rejected"
    /\ UNCHANGED <<cwd, config, patterns, gitignore, fileSet, resolved>>
    /\ UNCHANGED bundleVars
    /\ UNCHANGED <<cliVars, tokenVars>>

\* glob throws for an empty force pattern, or isBinary rejects for a force match
forceFails ==
    \/ throwsOnEmpty(patterns.force)
    \/ isBinaryRejects(forceCandidates(patterns, cwd), cwd)

\* if (force.length > 0) { ... }
ExpandForce ==
    /\ rpc = "force"
    /\ ~forceFails
    /\ fileSet' = addAll(fileSet, forceMatches(patterns, cwd))
    /\ rpc' = "sort"
    /\ UNCHANGED <<cwd, config, patterns, gitignore, resolved>>
    /\ UNCHANGED bundleVars
    /\ UNCHANGED <<cliVars, tokenVars>>

ExpandForceFails ==
    /\ rpc = "force"
    /\ forceFails
    /\ rpc' = "rejected"
    /\ UNCHANGED <<cwd, config, patterns, gitignore, fileSet, resolved>>
    /\ UNCHANGED bundleVars
    /\ UNCHANGED <<cliVars, tokenVars>>

\* return [...files].sort()
SortFiles ==
    /\ rpc = "sort"
    /\ resolved' = sort(fileSet)
    /\ rpc' = "done"
    /\ UNCHANGED <<cwd, config, patterns, gitignore, fileSet>>
    /\ UNCHANGED bundleVars
    /\ UNCHANGED <<cliVars, tokenVars>>

NextResolve == Normalize \/ ExpandInclude \/ ExpandForce \/ SortFiles

SpecResolve == InitResolve /\ [][NextResolve]_vars

-----------------------------------------------------------------------------
(* normalizePatterns on its own, with every prefix and prefix combination *)

PlainX    == <<"x">>
NotX      == <<"!", "x">>
ForceX    == <<"+", "x">>
NotForceX == <<"!", "+", "x">>
ForceNotX == <<"+", "!", "x">>
PlainXNot == <<"x", "!">>

PrefixPool == {PlainX, NotX, ForceX, NotForceX, ForceNotX, PlainXNot}

PrefixLists == UNION {[1..k -> PrefixPool] : k \in 1..MaxPatterns}

PrefixConfigs == ConfigsOver(PrefixPool, PrefixLists, PrefixLists, ObjectFields)

InitNormalize ==
    /\ cwd = EmptyDir
    /\ config \in PrefixConfigs
    /\ rpc = "start"
    /\ patterns = [include |-> <<>>, exclude |-> <<>>, force |-> <<>>]
    /\ gitignore = [ignore |-> <<>>, globPatterns |-> <<>>]
    /\ fileSet = <<>>
    /\ resolved = <<>>
    /\ BundleIdle
    /\ CliIdle
    /\ TokensIdle

NextNormalize == Normalize

SpecNormalize == InitNormalize /\ [][NextNormalize]_vars

-----------------------------------------------------------------------------
(* resolvePatterns on a pattern and the same pattern as an exclude *)

PlainPool == {PatAll, PatB, PatS}

\* [p, "!" + p] and ["+" + p, "!" + p]
VetoConfigs ==
    {ConfigOf("array", <<>>, <<p, <<"!">> \o p>>, NoFields) : p \in PlainPool}
        \cup {ConfigOf("array", <<>>, <<<<"+">> \o p, <<"!">> \o p>>, NoFields) : p \in PlainPool}

InitVeto ==
    /\ cwd \in Dirs
    /\ config \in VetoConfigs
    /\ rpc = "start"
    /\ patterns = [include |-> <<>>, exclude |-> <<>>, force |-> <<>>]
    /\ gitignore = [ignore |-> <<>>, globPatterns |-> <<>>]
    /\ fileSet = <<>>
    /\ resolved = <<>>
    /\ BundleIdle
    /\ CliIdle
    /\ TokensIdle

NextVeto == Normalize \/ ExpandInclude \/ ExpandForce \/ SortFiles

SpecVeto == InitVeto /\ [][NextVeto]_vars

-----------------------------------------------------------------------------
(* resolvePatterns on pattern arrays written in every order *)

\* two include patterns, a force pattern and an exclude pattern
OrderPool == {PatAll, PatS, PatForceB, PatNotBX}

OrderConfigs ==
    {ConfigOf("array", <<>>, l, NoFields) :
        l \in UNION {[1..k -> OrderPool] : k \in 1..MaxPatterns}}

InitOrder ==
    /\ cwd \in Dirs
    /\ config \in OrderConfigs
    /\ rpc = "start"
    /\ patterns = [include |-> <<>>, exclude |-> <<>>, force |-> <<>>]
    /\ gitignore = [ignore |-> <<>>, globPatterns |-> <<>>]
    /\ fileSet = <<>>
    /\ resolved = <<>>
    /\ BundleIdle
    /\ CliIdle
    /\ TokensIdle

NextOrder == Normalize \/ ExpandInclude \/ ExpandForce \/ SortFiles

SpecOrder == InitOrder /\ [][NextOrder]_vars

-----------------------------------------------------------------------------
(* bundle.ts: bundleOne, from the configuration to the BundleResult *)

\* getIncludeIndex: config.index ?? true of an object, true otherwise
getIncludeIndex(cfg) ==
    IF cfg.shape \in {"object-string", "object-array"} /\ cfg.index.defined
    THEN cfg.index.value
    ELSE TRUE

\* getPrompt: the prompt of an object unless it is missing, empty or blank
getPrompt(cfg) ==
    IF cfg.shape \in {"object-string", "object-array"} /\ cfg.prompt.defined
           /\ trim(cfg.prompt.text) # <<>>
    THEN cfg.prompt
    ELSE Undefined

\* a prompt that names a file: it starts with ./, ../ or ~/
isPromptPath(t) ==
    \/ startsWith(t, <<".", "/">>)
    \/ startsWith(t, <<".", ".", "/">>)
    \/ startsWith(t, <<"~", "/">>)

drop(t, n) == SubSeq(t, n + 1, Len(t))

\* a slip: a ~/ path joined to the working directory like a ./ path
promptLocation_homeInCwd(t) ==
    IF startsWith(t, <<".", ".", "/">>) THEN [base |-> "parent", name |-> drop(t, 3)]
    ELSE [base |-> "cwd", name |-> drop(t, 2)]

\* the file a prompt path names: join(cwd, prompt) for ./ and ../ (in the
\* working directory, in its parent), expandPath(prompt) for ~/ (in the home
\* directory)
promptLocation(t) ==
    IF startsWith(t, <<".", "/">>) THEN [base |-> "cwd", name |-> drop(t, 2)]
    ELSE IF startsWith(t, <<".", ".", "/">>) THEN [base |-> "parent", name |-> drop(t, 3)]
    ELSE [base |-> "home", name |-> drop(t, 2)]

\* readFile of the prompt file rejects: no such file
promptReadFails(p, dir) ==
    p.defined /\ isPromptPath(p.text) /\ promptLocation(p.text) \notin DOMAIN dir.promptFiles

\* resolvePrompt: the trimmed text of the file, or the trimmed inline text
resolvePrompt(p, dir) ==
    IF ~p.defined \/ p.text = <<>> THEN Undefined
    ELSE LET text == IF isPromptPath(p.text) THEN dir.promptFiles[promptLocation(p.text)]
                     ELSE p.text
         IN  IF trim(text) = <<>> THEN Undefined ELSE Some(trim(text))

\* bundleOne once resolvePatterns has returned: createBundle(files, cwd,
\* { includeIndex, prompt }) is entered
CallCreateBundle ==
    /\ rpc = "done"
    /\ pc = "idle"
    /\ ~promptReadFails(getPrompt(config), cwd)
    /\ files' = resolved
    /\ options' = [includeIndex |-> getIncludeIndex(config),
                   prompt       |-> resolvePrompt(getPrompt(config), cwd)]
    /\ pc' = "loop"
    /\ index' = LoopStart.index
    /\ contentParts' = LoopStart.contentParts
    /\ currentLine' = LoopStart.currentLine
    /\ result' = NoResult
    /\ UNCHANGED <<fsText, previous>>
    /\ UNCHANGED resolveVars
    /\ UNCHANGED <<cliVars, tokenVars>>

\* the prompt file cannot be read: bundleOne rejects before createBundle
ResolvePromptFails ==
    /\ rpc = "done"
    /\ pc = "idle"
    /\ promptReadFails(getPrompt(config), cwd)
    /\ pc' = "rejected"
    /\ UNCHANGED <<fsText, files, options, index, contentParts, currentLine, result, previous>>
    /\ UNCHANGED resolveVars
    /\ UNCHANGED <<cliVars, tokenVars>>

\* another process removes a resolved file before createBundle reads it
FileVanishes ==
    /\ rpc = "done"
    /\ pc = "idle"
    /\ DOMAIN fsText = Range(cwd.listing) \ cwd.unreadable
    /\ \E f \in Range(resolved) :
           fsText' = [g \in DOMAIN fsText \ {f} |-> fsText[g]]
    /\ UNCHANGED <<files, options, pc, index, contentParts, currentLine, result, previous>>
    /\ UNCHANGED resolveVars
    /\ UNCHANGED <<cliVars, tokenVars>>

\* the working directory of the bundleOne runs: four files met in an order
\* that is not the sorted one
BundleListing == <<FileSA, FileBX, FileA, FileBK>>

BundleTexts ==
    (FileA :> <<>>) @@ (FileBK :> <<"a", NL, "a">>) @@ (FileBX :> <<"a">>)
        @@ (FileSA :> <<"a", NL>>)

PromptFileQ   == <<".", "/", "q">>
PromptHomeQ   == <<"~", "/", "q">>
PromptParentQ == <<".", ".", "/", "q">>

\* the prompt files there are: q in the working directory, a blank q in the
\* home directory, none in the parent directory
PromptFiles ==
    ([base |-> "cwd", name |-> <<"q">>] :> <<" ", "h", NL>>)
        @@ ([base |-> "home", name |-> <<"q">>] :> <<NL>>)

BundleDirs ==
    {[listing |-> BundleListing, bytes |-> b, gitignore |-> g.gitignore,
      unreadable |-> g.unreadable, promptFiles |-> pf] :
        b \in {AllText(BundleListing), [AllText(BundleListing) EXCEPT ![FileBX] = BinaryBytes]},
        g \in {[gitignore |-> Undefined, unreadable |-> {}],
               [gitignore |-> Some(IgnoreB), unreadable |-> {}],
               [gitignore |-> Some(IgnoreB), unreadable |-> {GitignoreFile}],
               [gitignore |-> Undefined, unreadable |-> {FileSA}],
               [gitignore |-> Undefined, unreadable |-> {FileBK}]},
        pf \in {<<>>, PromptFiles}}

\* a pattern that matches no file, and the bare prefixes
PatNone   == <<"x">>
BareNot   == <<"!">>
BareForce == <<"+">>

BundlePool == {PatAll, PatForceB, PatNotBX, PatNone, BareNot, BareForce}

BundleLists == UNION {[1..k -> BundlePool] : k \in 1..MaxPatterns}

BundleFields ==
    {NoFields,
     [outfile |-> Undefined, index |-> Set(FALSE), prompt |-> Some(<<"p">>)],
     [outfile |-> Undefined, index |-> Unset, prompt |-> Some(PromptFileQ)],
     [outfile |-> Some(<<"o">>), index |-> Set(TRUE), prompt |-> Some(PromptHomeQ)],
     [outfile |-> Undefined, index |-> Set(FALSE), prompt |-> Some(<<" ">>)],
     [outfile |-> Undefined, index |-> Unset, prompt |-> Some(PromptParentQ)],
     [outfile |-> Undefined, index |-> Unset, prompt |-> Some(<<>>)],
     [outfile |-> Undefined, index |-> Unset, prompt |-> Some(<<" ", "p", NL>>)]}

BundleConfigs ==
    ConfigsOver(BundlePool, BundleLists, {m \in BundleLists : Len(m) = 1}, BundleFields)

InitBundleOne ==
    /\ cwd \in BundleDirs
    /\ config \in BundleConfigs
    /\ rpc = "start"
    /\ patterns = [include |-> <<>>, exclude |-> <<>>, force |-> <<>>]
    /\ gitignore = [ignore |-> <<>>, globPatterns |-> <<>>]
    /\ fileSet = <<>>
    /\ resolved = <<>>
    /\ fsText = [f \in Range(cwd.listing) \ cwd.unreadable |-> BundleTexts[f]]
    /\ files = <<>>
    /\ options = [includeIndex |-> TRUE, prompt |-> Undefined]
    /\ pc = "idle"
    /\ index = <<>>
    /\ contentParts = <<>>
    /\ currentLine = 1
    /\ result = NoResult
    /\ previous = NoCall
    /\ CliIdle
    /\ TokensIdle

NextBundleOne ==
    \/ Normalize
    \/ NormalizeFails
    \/ ExpandInclude
    \/ ExpandIncludeFails
    \/ ExpandForce
    \/ ExpandForceFails
    \/ SortFiles
    \/ FileVanishes
    \/ CallCreateBundle
    \/ ResolvePromptFails
    \/ ReadFile
    \/ ReadFileFails
    \/ RenderWithIndex
    \/ RenderWithoutIndex

SpecBundleOne == InitBundleOne /\ [][NextBundleOne]_vars

-----------------------------------------------------------------------------
(* cli.ts: main(), from the command line to the bundle files and the uploads *)

\* a path: absolute or not, and its segments
Path(absolute, segs) == [absolute |-> absolute, segs |-> segs]

ParentSeg == <<".", ".">>

\* path normalisation: `.` is dropped, `..` leaves the directory before it
RECURSIVE normalizeSegs(_, _)
normalizeSegs(done, rest) ==
    IF rest = <<>> THEN done
    ELSE IF rest[1] = <<".">> THEN normalizeSegs(done, Tail(rest))
    ELSE IF rest[1] = ParentSeg
         THEN normalizeSegs(IF done = <<>> THEN <<>> ELSE SubSeq(done, 1, Len(done) - 1),
                            Tail(rest))
    ELSE normalizeSegs(Append(done, rest[1]), Tail(rest))

\* path.resolve(root, p) for an absolute root
resolve(root, p) ==
    IF p.absolute THEN Path(TRUE, normalizeSegs(<<>>, p.segs))
    ELSE Path(TRUE, normalizeSegs(<<>>, root.segs \o p.segs))

\* the number of leading segments two paths share
RECURSIVE commonPrefix(_, _)
commonPrefix(a, b) ==
    IF a = <<>> \/ b = <<>> \/ a[1] # b[1] THEN 0 ELSE 1 + commonPrefix(Tail(a), Tail(b))

\* path.relative(from, to) of two absolute paths: one `..` for every directory
\* of `from` that `to` is not under, then the rest of `to`
relative(from, to) ==
    LET f == normalizeSegs(<<>>, from.segs)
        t == normalizeSegs(<<>>, to.segs)
        c == commonPrefix(f, t)
    IN  Path(FALSE, [k \in 1..(Len(f) - c) |-> ParentSeg] \o SubSeq(t, c + 1, Len(t)))

\* rel.startsWith(".."): the text of a relative path starts with its first segment
relStartsWithDots(rel) == rel.segs # <<>> /\ startsWith(rel.segs[1], <<".", ".">>)

isOutDirInsideRoot(outDir, root) ==
    LET absoluteOutDir == IF outDir.absolute THEN outDir ELSE resolve(root, outDir)
        rel == relative(root, absoluteOutDir)
    IN  ~relStartsWithDots(rel) /\ ~rel.absolute

\* emptyOutDirFlag ?? config.emptyOutDir ?? outDirInsideRoot
emptyOutDir(flag, configured, inside) ==
    IF flag.defined THEN flag.value
    ELSE IF configured.defined THEN configured.value
    ELSE inside

\* a slip: the dry run forgotten
shouldEmpty_ignoringDryRun(empty, dryRun) == empty

\* if (emptyOutDir && !dryRun)
shouldEmpty(empty, dryRun) == empty /\ ~dryRun

\* emptyDirectory(dir, [".git"]): nothing when readdir fails, else every entry
\* but the skipped ones is removed
emptyDirectory(dir, skip) ==
    IF ~dir.exists THEN dir ELSE [dir EXCEPT !.entries = dir.entries \cap skip]

\* Object.keys(config.bundles), in insertion order
keys(bundles) == [k \in 1..Len(bundles) |-> bundles[k].name]

\* property names every object inherits from Object.prototype
ObjectPrototype == {"constructor", "toString", "valueOf", "hasOwnProperty"}

\* an inherited property is a function: neither a string nor an array, and its
\* `include` is undefined
FunctionValue ==
    [shape |-> "function", single |-> <<>>, list |-> <<>>,
     outfile |-> Undefined, index |-> Unset, prompt |-> Undefined]

\* name in config.bundles: own and inherited properties
hasProperty(bundles, name) ==
    name \in Range(keys(bundles)) \/ name \in ObjectPrototype

\* config.bundles[name]
property(bundles, name) ==
    IF name \in Range(keys(bundles))
    THEN (CHOOSE b \in Range(bundles) : b.name = name).value
    ELSE FunctionValue

\* the project the CLI runs in
CliDir ==
    [listing |-> <<FileSA, FileA>>, bytes |-> AllText(<<FileSA, FileA>>),
     gitignore |-> Undefined, unreadable |-> {}, promptFiles |-> <<>>]

CliTexts == (FileA :> <<"a", NL, "a">>) @@ (FileSA :> <<"a">>)

\* bundleOne rejects: p.startsWith of an undefined pattern, an empty exclude or
\* force pattern, a file that cannot be read, a prompt file that is not there
bundleOneRejects(cfg, dir) ==
    \/ cfg.shape = "function"
    \/ LET pat == normalizePatterns(cfg)
           ig  == loadGitignore(dir)
       IN  \/ throwsOnEmpty(pat.exclude)
           \/ isBinaryRejects(includeCandidates(pat, ig, dir), dir)
           \/ throwsOnEmpty(pat.force)
           \/ isBinaryRejects(forceCandidates(pat, dir), dir)
    \/ promptReadFails(getPrompt(cfg), dir)

\* bundleOne(name, config, cwd)
bundleOne(cfg, dir, texts) ==
    createBundle(texts, resolvePatterns(cfg, dir),
                 [includeIndex |-> getIncludeIndex(cfg),
                  prompt       |-> resolvePrompt(getPrompt(cfg), dir)])

\* sumLines(result)
RECURSIVE sumLines(_)
sumLines(entries) ==
    IF entries = <<>> THEN 0 ELSE entries[1].lines + sumLines(Tail(entries))

\* a slip: the outputs printed and written as soon as one is there
afterBundle_eager(outs, names) == "print"

\* the bundling loop ends when every name has its output
afterBundle(outs, names) == IF Len(outs) < Len(names) THEN "bundle" ELSE "print"

\* the per-bundle lines printed so far
printed == Cardinality({k \in 1..Len(console) : console[k].kind = "bundle"})

\* a slip: the exclude list not applied
toUpload_noExclude(uploadConfig, outs) == outs

\* outputs.filter((o) => !excludeSet.has(o.name))
toUpload(uploadConfig, outs) ==
    SelectSeq(outs, LAMBDA o : o.name \notin uploadConfig.exclude)

\* the uploads attempted so far for a destination
uploadsTo(d) ==
    SelectSeq(effects, LAMBDA e : e.op = "upload" /\ e.destination = d)

\* if (config.upload && !noUpload)
uploadRequested(upload, noUpload) == upload # <<>> /\ ~noUpload

Message(kind, name) == [kind |-> kind, name |-> name, files |-> 0, lines |-> 0]

\* the process ends
Exit(code) == cpc' = "exited" /\ exitCode' = code

\* the validation loop finds a name that is no property of config.bundles
UnknownBundle ==
    /\ cpc = "start"
    /\ LET names == IF Len(args.requestedBundles) > 0 THEN args.requestedBundles
                    ELSE keys(cliConfig.bundles)
           unknown == {k \in 1..Len(names) : ~hasProperty(cliConfig.bundles, names[k])}
       IN  /\ unknown # {}
           /\ bundleNames' = names
           /\ console' = Append(console,
                  Message("Unknown bundle", names[CHOOSE k \in unknown : \A j \in unknown : k <= j]))
    /\ Exit(1)
    /\ UNCHANGED <<args, cliConfig, outDirState, outputs, destination, effects>>
    /\ UNCHANGED <<bundleVars, resolveVars, tokenVars>>

\* if (bundleNames.length === 0)
NoBundles ==
    /\ cpc = "start"
    /\ Len(args.requestedBundles) = 0
    /\ cliConfig.bundles = <<>>
    /\ bundleNames' = <<>>
    /\ console' = Append(console, Message("No bundles configured.", ""))
    /\ Exit(0)
    /\ UNCHANGED <<args, cliConfig, outDirState, outputs, destination, effects>>
    /\ UNCHANGED <<bundleVars, resolveVars, tokenVars>>

\* every name passed the validation loop: emptyOutDir is resolved and the
\* output directory emptied, unless this is a dry run
EmptyOutDir ==
    /\ cpc = "start"
    /\ LET names == IF Len(args.requestedBundles) > 0 THEN args.requestedBundles
                    ELSE keys(cliConfig.bundles)
           inside == isOutDirInsideRoot(cliConfig.outDir, cliConfig.root)
           empty == emptyOutDir(args.emptyOutDirFlag, cliConfig.emptyOutDir, inside)
           warn == ~inside /\ ~args.emptyOutDirFlag.defined /\ ~cliConfig.emptyOutDir.defined
       IN  /\ names # <<>>
           /\ \A k \in 1..Len(names) : hasProperty(cliConfig.bundles, names[k])
           /\ bundleNames' = names
           /\ console' = IF warn THEN Append(console, Message("Warning: outside root", ""))
                         ELSE console
           /\ IF shouldEmpty(empty, args.dryRun)
              THEN /\ outDirState' = emptyDirectory(outDirState, {".git"})
                   /\ effects' = Append(effects, [op |-> "emptyDirectory", destination |-> 0,
                                                  name |-> ""])
              ELSE UNCHANGED <<outDirState, effects>>
    /\ cpc' = "bundle"
    /\ UNCHANGED <<args, cliConfig, outputs, destination, exitCode>>
    /\ UNCHANGED <<bundleVars, resolveVars, tokenVars>>

\* one round of the bundling loop: bundleOne, then outputs.push
BundleNext ==
    /\ cpc = "bundle"
    /\ LET name == bundleNames[Len(outputs) + 1]
           bundleConfig == property(cliConfig.bundles, name)
       IN  /\ ~bundleOneRejects(bundleConfig, CliDir)
           /\ outputs' = Append(outputs, [name |-> name,
                                          result |-> bundleOne(bundleConfig, CliDir, CliTexts)])
    /\ cpc' = afterBundle(outputs', bundleNames)
    /\ UNCHANGED <<args, cliConfig, outDirState, bundleNames, destination, effects, console,
                   exitCode>>
    /\ UNCHANGED <<bundleVars, resolveVars, tokenVars>>

\* bundleOne rejects: main().catch prints the error and exits with code 1
BundleRejects ==
    /\ cpc = "bundle"
    /\ LET name == bundleNames[Len(outputs) + 1]
       IN  /\ bundleOneRejects(property(cliConfig.bundles, name), CliDir)
           /\ console' = Append(console, Message("error", name))
    /\ Exit(1)
    /\ UNCHANGED <<args, cliConfig, outDirState, bundleNames, outputs, destination, effects>>
    /\ UNCHANGED <<bundleVars, resolveVars, tokenVars>>

\* one round of the printing loop: the counts are printed, and unless this is a
\* dry run the directory of the outfile is created and the content written
WriteOutput ==
    /\ cpc = "print"
    /\ printed < Len(outputs)
    /\ LET o == outputs[printed + 1]
       IN  /\ console' = Append(console,
                  [kind |-> "bundle", name |-> o.name, files |-> Len(o.result.index),
                   lines |-> sumLines(o.result.index)])
           /\ effects' = IF args.dryRun THEN effects
                         ELSE effects \o <<[op |-> "mkdir", destination |-> 0, name |-> o.name],
                                           [op |-> "writeFile", destination |-> 0, name |-> o.name]>>
    /\ UNCHANGED <<args, cliConfig, outDirState, cpc, bundleNames, outputs, destination, exitCode>>
    /\ UNCHANGED <<bundleVars, resolveVars, tokenVars>>

\* the summary line; the upload follows unless this is a dry run, no upload is
\* configured or --no-upload was given
Summary ==
    /\ cpc = "print"
    /\ printed = Len(outputs)
    /\ console' = Append(console,
           [kind |-> IF args.dryRun THEN "Dry run" ELSE "Bundled", name |-> "",
            files |-> Len(outputs), lines |-> 0])
    /\ IF ~args.dryRun /\ uploadRequested(cliConfig.upload, args.noUpload)
       THEN cpc' = "upload" /\ destination' = 1 /\ UNCHANGED exitCode
       ELSE Exit(0) /\ UNCHANGED destination
    /\ UNCHANGED <<args, cliConfig, outDirState, bundleNames, outputs, effects>>
    /\ UNCHANGED <<bundleVars, resolveVars, tokenVars>>

\* handleGdriveUpload returns: the loop over the destinations goes on, and the
\* process ends after the last one
NextDestination ==
    /\ destination' = destination + 1
    /\ IF destination < Len(cliConfig.upload) THEN UNCHANGED <<cpc, exitCode>> ELSE Exit(0)

Effect(op, name) == [op |-> op, destination |-> destination, name |-> name]

authenticated == \E k \in 1..Len(effects) : effects[k] = Effect("ensureAuthenticated", "")

\* if (toUpload.length === 0)
AllExcluded ==
    /\ cpc = "upload"
    /\ toUpload(cliConfig.upload[destination], outputs) = <<>>
    /\ console' = Append(console, Message("No bundles to upload (all excluded).", ""))
    /\ NextDestination
    /\ UNCHANGED <<args, cliConfig, outDirState, bundleNames, outputs, effects>>
    /\ UNCHANGED <<bundleVars, resolveVars, tokenVars>>

\* await ensureAuthenticated(uploadConfig)
Authenticate ==
    /\ cpc = "upload"
    /\ toUpload(cliConfig.upload[destination], outputs) # <<>>
    /\ ~authenticated
    /\ effects' = Append(effects, Effect("ensureAuthenticated", ""))
    /\ UNCHANGED <<args, cliConfig, outDirState, cpc, bundleNames, outputs, destination,
                   console, exitCode>>
    /\ UNCHANGED <<bundleVars, resolveVars, tokenVars>>

\* ensureAuthenticated rejects: an OAuthError is printed and the destination
\* given up, any other error ends the process
AuthenticateFails ==
    /\ cpc = "upload"
    /\ toUpload(cliConfig.upload[destination], outputs) # <<>>
    /\ ~authenticated
    /\ effects' = Append(effects, Effect("ensureAuthenticated", ""))
    /\ \E oauth \in BOOLEAN :
           IF oauth
           THEN console' = Append(console, Message("OAuth error", "")) /\ NextDestination
           ELSE console' = Append(console, Message("error", "")) /\ Exit(1)
                    /\ UNCHANGED destination
    /\ UNCHANGED <<args, cliConfig, outDirState, bundleNames, outputs>>
    /\ UNCHANGED <<bundleVars, resolveVars, tokenVars>>

\* one round of the upload loop: uploadFile, which asks for the tokens again
UploadFile ==
    /\ cpc = "upload"
    /\ authenticated
    /\ LET files_ == toUpload(cliConfig.upload[destination], outputs)
       IN  /\ Len(uploadsTo(destination)) < Len(files_)
           /\ effects' = effects \o
                  <<Effect("ensureAuthenticated", ""),
                    Effect("upload", files_[Len(uploadsTo(destination)) + 1].name)>>
    /\ UNCHANGED <<args, cliConfig, outDirState, cpc, bundleNames, outputs, destination,
                   console, exitCode>>
    /\ UNCHANGED <<bundleVars, resolveVars, tokenVars>>

\* uploadFile rejects
UploadFails ==
    /\ cpc = "upload"
    /\ authenticated
    /\ LET files_ == toUpload(cliConfig.upload[destination], outputs)
       IN  /\ Len(uploadsTo(destination)) < Len(files_)
           /\ effects' = effects \o
                  <<Effect("ensureAuthenticated", ""),
                    Effect("upload", files_[Len(uploadsTo(destination)) + 1].name)>>
    /\ \E oauth \in BOOLEAN :
           IF oauth
           THEN console' = Append(console, Message("OAuth error", "")) /\ NextDestination
           ELSE console' = Append(console, Message("error", "")) /\ Exit(1)
                    /\ UNCHANGED destination
    /\ UNCHANGED <<args, cliConfig, outDirState, bundleNames, outputs>>
    /\ UNCHANGED <<bundleVars, resolveVars, tokenVars>>

\* the upload loop is over: the upload summary
Uploaded ==
    /\ cpc = "upload"
    /\ authenticated
    /\ Len(uploadsTo(destination)) = Len(toUpload(cliConfig.upload[destination], outputs))
    /\ console' = Append(console,
           [kind |-> "Uploaded", name |-> "", files |-> Len(uploadsTo(destination)),
            lines |-> 0])
    /\ NextDestination
    /\ UNCHANGED <<args, cliConfig, outDirState, bundleNames, outputs, effects>>
    /\ UNCHANGED <<bundleVars, resolveVars, tokenVars>>

\* the command lines and configurations the CLI is run on
ProjectRoot == Path(TRUE, << <<"r">> >>)

OutDirDefault  == Path(FALSE, << <<".", "s">> >>)
OutDirParent   == Path(FALSE, <<ParentSeg, <<"o">> >>)
OutDirDotted   == Path(FALSE, << <<".", ".", "o">> >>)
OutDirAbsolute == Path(TRUE, << <<"r">>, <<"o">> >>)
OutDirElsewhere == Path(TRUE, << <<"t">> >>)

OutDirs == {OutDirDefault, OutDirParent, OutDirDotted, OutDirAbsolute, OutDirElsewhere}

BundleA   == [name |-> "a", value |-> ConfigOf("string", PatAll, <<>>, NoFields)]
BundleS   ==
    [name |-> "s",
     value |-> ConfigOf("object-string", PatS, <<>>,
                        [outfile |-> Undefined, index |-> Set(FALSE), prompt |-> Some(<<"p">>)])]
BundleBad == [name |-> "bad", value |-> ConfigOf("array", <<>>, <<BareNot>>, NoFields)]

CliBundles == {<<>>, <<BundleA, BundleS>>, <<BundleA, BundleBad>>}

Requests ==
    {<<>>, <<"a">>, <<"s", "a">>, <<"a", "a">>, <<"a", "zz">>, <<"toString">>}

Destination(clientId, exclude) == [clientId |-> clientId, exclude |-> exclude]

Uploads ==
    {<<>>,
     <<Destination("c1", {})>>,
     <<Destination("c1", {"a"})>>,
     <<Destination("c1", {"a", "s"}), Destination("c2", {"s"})>>}

OptionalBooleans == {Unset, Set(TRUE), Set(FALSE)}

InitCli ==
    /\ args \in [dryRun : BOOLEAN, noUpload : BOOLEAN, emptyOutDirFlag : OptionalBooleans,
                 requestedBundles : Requests]
    /\ cliConfig \in [root : {ProjectRoot}, bundles : CliBundles, outDir : OutDirs,
                      emptyOutDir : OptionalBooleans, upload : Uploads]
    /\ outDirState \in {[exists |-> FALSE, entries |-> {}],
                        [exists |-> TRUE, entries |-> {".git", "old.txt"}]}
    /\ cpc = "start"
    /\ bundleNames = <<>>
    /\ outputs = <<>>
    /\ destination = 1
    /\ effects = <<>>
    /\ console = <<>>
    /\ exitCode = -1
    /\ BundleIdle
    /\ ResolveIdle
    /\ TokensIdle

NextCli ==
    \/ UnknownBundle
    \/ NoBundles
    \/ EmptyOutDir
    \/ BundleNext
    \/ BundleRejects
    \/ WriteOutput
    \/ Summary
    \/ AllExcluded
    \/ Authenticate
    \/ AuthenticateFails
    \/ UploadFile
    \/ UploadFails
    \/ Uploaded

SpecCli == InitCli /\ [][NextCli]_vars

-----------------------------------------------------------------------------
(* gdrive.ts: getValidTokens and ensureAuthenticated, for one client id.       *)
(* Times are in minutes.                                                       *)

\* const buffer = 5 * 60 * 1000
buffer == 5

NoNumber  == [defined |-> FALSE, value |-> 0]
Number(n) == [defined |-> TRUE, value |-> n]

\* the Tokens of the credentials file, and null
Tokens(access, refresh, expires) ==
    [present |-> TRUE, access_token |-> access, refresh_token |-> refresh,
     expires_at |-> expires]
Null == [present |-> FALSE, access_token |-> "", refresh_token |-> Undefined,
         expires_at |-> NoNumber]

\* isExpired: false without expires_at, else Date.now() >= expires_at - buffer
isExpired(tokens, now) ==
    IF ~tokens.expires_at.defined \/ tokens.expires_at.value = 0 THEN FALSE
    ELSE now >= tokens.expires_at.value - buffer

\* tokens.refresh_token is truthy
hasRefreshToken(tokens) == tokens.refresh_token.defined /\ tokens.refresh_token.text # <<>>

\* what getValidTokens returned, from what it loaded, and when
Returned(tokens, loaded, refreshed, now) ==
    [returned |-> TRUE, tokens |-> tokens, loaded |-> loaded, refreshed |-> refreshed,
     at |-> now]

\* loadTokens gives null: getValidTokens returns null
NoStoredTokens ==
    /\ tpc = "start"
    /\ ~credentials.present
    /\ validTokens' = Returned(Null, credentials, FALSE, clock)
    /\ tpc' = "returned"
    /\ UNCHANGED <<credentials, clock, response, saved, loginStarted>>
    /\ UNCHANGED <<bundleVars, resolveVars, cliVars>>

\* the stored tokens are returned as they are
ReturnStored ==
    /\ tpc = "start"
    /\ credentials.present
    /\ ~(isExpired(credentials, clock) /\ hasRefreshToken(credentials))
    /\ validTokens' = Returned(credentials, credentials, FALSE, clock)
    /\ tpc' = "returned"
    /\ UNCHANGED <<credentials, clock, response, saved, loginStarted>>
    /\ UNCHANGED <<bundleVars, resolveVars, cliVars>>

\* refreshAccessToken: the endpoint answers, the new access token is stored
\* with the old refresh token and returned
Refresh ==
    /\ tpc = "start"
    /\ credentials.present
    /\ isExpired(credentials, clock) /\ hasRefreshToken(credentials)
    /\ response.ok
    /\ clock' = clock + response.delay
    /\ LET tokens == Tokens("new", credentials.refresh_token,
                            Number(clock' + response.expires_in))
       IN  /\ credentials' = tokens
           /\ saved' = Append(saved, tokens)
           /\ validTokens' = Returned(tokens, credentials, TRUE, clock')
    /\ tpc' = "returned"
    /\ UNCHANGED <<response, loginStarted>>
    /\ UNCHANGED <<bundleVars, resolveVars, cliVars>>

\* refreshAccessToken throws: getValidTokens returns null
RefreshFails ==
    /\ tpc = "start"
    /\ credentials.present
    /\ isExpired(credentials, clock) /\ hasRefreshToken(credentials)
    /\ ~response.ok
    /\ clock' = clock + response.delay
    /\ validTokens' = Returned(Null, credentials, FALSE, clock')
    /\ tpc' = "returned"
    /\ UNCHANGED <<credentials, response, saved, loginStarted>>
    /\ UNCHANGED <<bundleVars, resolveVars, cliVars>>

\* ensureAuthenticated: if (tokens) return tokens
TokensFound ==
    /\ tpc = "returned"
    /\ validTokens.tokens.present
    /\ tpc' = "done"
    /\ UNCHANGED <<credentials, clock, response, validTokens, saved, loginStarted>>
    /\ UNCHANGED <<bundleVars, resolveVars, cliVars>>

\* ensureAuthenticated: return login(config)
Login ==
    /\ tpc = "returned"
    /\ ~validTokens.tokens.present
    /\ loginStarted' = TRUE
    /\ tpc' = "done"
    /\ UNCHANGED <<credentials, clock, response, validTokens, saved>>
    /\ UNCHANGED <<bundleVars, resolveVars, cliVars>>

\* the time of the call, and the expiry times around it
Now == 10
ExpiryTimes ==
    {NoNumber, Number(Now - 5), Number(Now), Number(Now + 4), Number(Now + 5),
     Number(Now + 6), Number(Now + 60)}

StoredTokens ==
    {Null} \cup {Tokens("old", r, e) : r \in {Undefined, Some(<<"r">>)}, e \in ExpiryTimes}

\* the answer of the token endpoint: an hour of validity, at once or a minute
\* later, or a refusal
Responses == [ok : BOOLEAN, expires_in : {60}, delay : {0, 1}]

InitTokens ==
    /\ credentials \in StoredTokens
    /\ clock = Now
    /\ tpc = "start"
    /\ response \in Responses
    /\ validTokens = [returned |-> FALSE]
    /\ saved = <<>>
    /\ loginStarted = FALSE
    /\ BundleIdle
    /\ ResolveIdle
    /\ CliIdle

NextTokens ==
    \/ NoStoredTokens
    \/ ReturnStored
    \/ Refresh
    \/ RefreshFails
    \/ TokensFound
    \/ Login

SpecTokens == InitTokens /\ [][NextTokens]_vars

-----------------------------------------------------------------------------
(* What the claims speak of: the lines of a text, split on "\n" *)

RECURSIVE SplitLines(_)
SplitLines(s) ==
    IF \A k \in 1..Len(s) : s[k] # NL THEN <<s>>
    ELSE LET k == CHOOSE k \in 1..Len(s) : s[k] = NL /\ \A j \in 1..(k - 1) : s[j] # NL
         IN  <<SubSeq(s, 1, k - 1)>> \o SplitLines(SubSeq(s, k + 1, Len(s)))

Done == pc = "done"

contentLines == SplitLines(result.content)

\* the text of the k-th listed file
TextOf(k) == fsText[files[k]]

\* the lines a file's text occupies in the bundle: one at least
Occupied(text) == Max(1, countLines(text))

\* the start line of file k when nothing precedes the first separator
RECURSIVE NoHeaderStart(_)
NoHeaderStart(k) ==
    IF k = 1 THEN 2 ELSE NoHeaderStart(k - 1) + Occupied(TextOf(k - 1)) + 1

\* the prompt as the caller passed it, and whether it has a non-blank character
rawPrompt == options.prompt
NonBlankPrompt ==
    rawPrompt.defined /\ \E k \in 1..Len(rawPrompt.text) : ~IsSpace(rawPrompt.text[k])

\* the number of "\n" characters in a text
Newlines(s) == Cardinality({k \in 1..Len(s) : s[k] = NL})

-----------------------------------------------------------------------------
(* Claims about createBundle, checked under Spec *)

\* C1: every index entry is consistent with content: the line before startLine
\* is the separator `#==> [i] <path> <==`, and lines startLine..endLine are the
\* file's text with at most one trailing newline removed (none removed when the
\* text has no trailing newline; an empty file occupies one empty line).
C1_IndexMatchesContent ==
    Done =>
        /\ Len(result.index) = Len(files)
        /\ \A i \in 1..Len(result.index) :
            LET e    == result.index[i]
                text == fsText[e.path]
                body == join(SubSeq(contentLines, e.startLine, e.endLine), <<NL>>)
            IN  /\ e.path = files[i]
                /\ 2 <= e.startLine
                /\ e.startLine <= e.endLine
                /\ e.endLine <= Len(contentLines)
                /\ contentLines[e.startLine - 1] = formatSeparator(i, e.path)
                /\ text \in {body, body \o <<NL>>}
                /\ (~endsWith(text, NL) => body = text)
                /\ (text = <<>> => e.endLine = e.startLine /\ contentLines[e.startLine] = <<>>)

C1_Witness ==
    /\ Done
    /\ Len(files) = 2
    /\ options.includeIndex
    /\ NonBlankPrompt
    /\ TextOf(1) = <<>>
    /\ TextOf(2) = <<"a", NL>>

\* C2: the accounting is a left-to-right scan with a cursor starting at 1: the
\* separator of file i is at the cursor, startLine = cursor + 1,
\* endLine = startLine + max(0, lines - 1), the cursor moves to endLine + 1.
\* Hence endLine - startLine + 1 = max(1, lines), startLine of the next file is
\* endLine + 2, and ranges never overlap.
C2_CursorScan ==
    /\ \A i \in 1..Len(index) :
        /\ index[i].endLine = index[i].startLine + Max(0, index[i].lines - 1)
        /\ index[i].endLine - index[i].startLine + 1 = Max(1, index[i].lines)
        /\ i < Len(index) => index[i + 1].startLine = index[i].endLine + 2
        /\ \A j \in 1..Len(index) : i < j => index[i].endLine < index[j].startLine
    /\ pc = "loop" =>
        LET partLines == SplitLines(join(contentParts, <<NL>>))
        IN  /\ currentLine = (IF index = <<>> THEN 1 ELSE index[Len(index)].endLine + 1)
            /\ index # <<>> => index[1].startLine = 2
            /\ index # <<>> => Len(partLines) = currentLine - 1
            /\ \A i \in 1..Len(index) :
                partLines[index[i].startLine - 1] = formatSeparator(i, index[i].path)

C2_Witness ==
    /\ pc = "loop"
    /\ Len(index) = 2
    /\ index[1].lines = 0
    /\ index[2].lines = 2
    /\ currentLine = 6

\* C3: with includeIndex, every entry is shifted by fileCount + 2 + promptLines
\* relative to the no-header numbering; the first file starts at
\* fileCount + 4 + promptLines (6 for two files and no prompt, 9 for one file
\* and a one-line prompt).
C3_IndexHeaderShift ==
    (Done /\ options.includeIndex) =>
        /\ \A i \in 1..Len(result.index) :
            result.index[i].startLine = NoHeaderStart(i) + Len(files) + 2 + promptLines
        /\ \A i \in 1..Len(result.index) :
            result.index[i].endLine =
                NoHeaderStart(i) + Occupied(TextOf(i)) - 1 + Len(files) + 2 + promptLines
        /\ Len(files) > 0 => result.index[1].startLine = Len(files) + 4 + promptLines
        /\ (Len(files) = 2 /\ ~NonBlankPrompt) => result.index[1].startLine = 6
        /\ (Len(files) = 1 /\ NonBlankPrompt /\ Len(SplitLines(prompt.text)) = 1)
               => result.index[1].startLine = 9

C3_Witness ==
    /\ Done
    /\ options.includeIndex
    /\ Len(files) = 1
    /\ rawPrompt = Some(<<"p">>)
    /\ result.index[1].startLine = 9

\* C4: without includeIndex, every entry is shifted only by promptLines: with
\* no prompt the first file starts on line 2 with its separator on line 1 and no
\* index block; with a prompt the first file starts on line promptLines + 2.
C4_NoIndexShift ==
    (Done /\ ~options.includeIndex) =>
        /\ \A i \in 1..Len(result.index) :
            /\ result.index[i].startLine = NoHeaderStart(i) + promptLines
            /\ result.index[i].endLine =
                   NoHeaderStart(i) + Occupied(TextOf(i)) - 1 + promptLines
        /\ Len(files) > 0 =>
            /\ result.index[1].startLine = promptLines + 2
            /\ contentLines[promptLines + 1] = formatSeparator(1, files[1])
            /\ ~NonBlankPrompt =>
                /\ result.index[1].startLine = 2
                /\ startsWith(result.content, formatSeparator(1, files[1]))

C4_Witness ==
    /\ Done
    /\ ~options.includeIndex
    /\ Len(files) = 2
    /\ NonBlankPrompt
    /\ promptLines = 5
    /\ result.index[1].startLine = 7

\* C5: promptLines is 0 without a prompt and countLines(prompt) + 3 otherwise,
\* and it is the number of lines the framing `<prompt>\n\n---\n\n` occupies in
\* content: the rest of the bundle begins on line promptLines + 1.
C5_PromptLines ==
    Done =>
        /\ ~NonBlankPrompt => promptLines = 0
        /\ NonBlankPrompt =>
            LET framing == prompt.text \o PromptFrame
                rest    == SubSeq(result.content, Len(framing) + 1, Len(result.content))
            IN  /\ promptLines = countLines(prompt.text) + 3
                /\ startsWith(result.content, framing)
                /\ Newlines(framing) = promptLines
                /\ Len(SplitLines(prompt.text)) = promptLines - 3
                /\ contentLines[promptLines - 1] = <<"-", "-", "-">>
                /\ contentLines[promptLines] = <<>>
                /\ SubSeq(contentLines, promptLines + 1, Len(contentLines)) = SplitLines(rest)
                /\ contentLines[promptLines + 1] =
                       SplitLines(createBundle(fsText, files,
                                               [options EXCEPT !.prompt = Undefined]).content)[1]

C5_Witness ==
    /\ Done
    /\ rawPrompt = Some(<<"p", NL, "p">>)
    /\ promptLines = 5
    /\ Len(files) = 1

\* C6: countLines is 0 for the empty string and otherwise the number of "\n"
\* characters, plus 1 unless the text ends with "\n"; the `lines` field of every
\* index entry is countLines of the file's full text.
C6_CountLines ==
    /\ countLines(<<>>) = 0
    /\ countLines(<<"a">>) = 1
    /\ countLines(<<"a", NL>>) = 1
    /\ countLines(<<"a", NL, "b">>) = 2
    /\ countLines(<<"a", NL, "b", NL>>) = 2
    /\ \A i \in 1..Len(index) :
        LET text == fsText[index[i].path]
        IN  index[i].lines =
                (IF Len(text) = 0 THEN 0
                 ELSE IF text[Len(text)] = NL THEN Len(SplitLines(text)) - 1
                 ELSE Len(SplitLines(text)))

C6_Witness ==
    /\ Len(index) = 2
    /\ fsText[index[1].path] = <<NL, "a">>
    /\ index[1].lines = 2
    /\ fsText[index[2].path] = <<NL, NL>>
    /\ index[2].lines = 2

\* C7: for an empty file list the index is empty and content is P followed by
\* E: E is "# Index\n# (empty)" with includeIndex and empty without, P is empty
\* without a prompt and `<prompt>\n\n---\n\n` with one.
C7_EmptyFileList ==
    (Done /\ files = <<>>) =>
        LET P == IF NonBlankPrompt THEN prompt.text \o <<NL, NL, "-", "-", "-", NL, NL>>
                 ELSE <<>>
            E == IF options.includeIndex
                 THEN <<"#", " ", "I", "n", "d", "e", "x", NL,
                        "#", " ", "(", "e", "m", "p", "t", "y", ")">>
                 ELSE <<>>
        IN  /\ result.index = <<>>
            /\ result.content = P \o E

C7_Witness ==
    /\ Done
    /\ files = <<>>
    /\ options.includeIndex
    /\ NonBlankPrompt

\* C8: the prompt is normalized by trimming: an empty or whitespace-only prompt
\* gives the content and index of no prompt at all, and a non-blank prompt
\* appears in content trimmed and immediately followed by "\n\n---\n\n".
C8_PromptTrimmed ==
    Done =>
        /\ ~NonBlankPrompt =>
            result = createBundle(fsText, files, [options EXCEPT !.prompt = Undefined])
        /\ NonBlankPrompt =>
            \E a, b \in 0..Len(rawPrompt.text) :
                LET t == rawPrompt.text
                    P == SubSeq(t, a + 1, Len(t) - b)
                IN  /\ a + b < Len(t)
                    /\ \A k \in 1..a : IsSpace(t[k])
                    /\ \A k \in (Len(t) - b + 1)..Len(t) : IsSpace(t[k])
                    /\ ~IsSpace(P[1]) /\ ~IsSpace(P[Len(P)])
                    /\ startsWith(result.content, P \o <<NL, NL, "-", "-", "-", NL, NL>>)

C8_Witness ==
    /\ Done
    /\ rawPrompt = Some(<<" ", "p", " ">>)
    /\ Len(files) = 1
    /\ startsWith(result.content, <<"p", NL, NL, "-">>)

C8_WitnessBlank ==
    /\ Done
    /\ rawPrompt = Some(<<NL, " ", NL>>)
    /\ Len(files) = 1

\* the lines before the first separator: the prompt framing, then the index
\* block and the blank line after it
FramingLines == IF NonBlankPrompt THEN countLines(trim(rawPrompt.text)) + 3 ELSE 0
IndexLines   == IF options.includeIndex THEN Len(files) + 1 ELSE 0
BlankLines   == IF options.includeIndex THEN 1 ELSE 0

\* how many of the parts of a bundle a line number belongs to, given the
\* number of framing lines and of index lines
PartsHolding(n, framing, indexed) ==
    (IF n <= framing THEN 1 ELSE 0)
        + (IF framing < n /\ n <= framing + indexed THEN 1 ELSE 0)
        + (IF BlankLines = 1 /\ n = framing + indexed + 1 THEN 1 ELSE 0)
        + Cardinality({k \in 1..Len(result.index) : n = result.index[k].startLine - 1})
        + Cardinality({k \in 1..Len(result.index) :
                           result.index[k].startLine <= n /\ n <= result.index[k].endLine})

\* the last file as the bundle stores it ends the content: nothing, or a text
\* that ends with "\n"
LastStoredEndsInNewline ==
    LET text == TextOf(Len(files))
    IN  text = <<>> \/ text = <<NL>>
            \/ (Len(text) >= 2 /\ text[Len(text)] = NL /\ text[Len(text) - 1] = NL)

\* the last index entry ends on the last line of content, and every line of
\* content belongs to exactly one part of the bundle
LinesAccountedFor ==
    LET lines   == contentLines
        framing == FramingLines
        indexed == IndexLines
    IN  /\ result.index[Len(result.index)].endLine = Len(lines)
        /\ \A n \in 1..Len(lines) : PartsHolding(n, framing, indexed) = 1
        /\ \A k \in 1..Len(result.index) :
               lines[result.index[k].startLine - 1] = formatSeparator(k, files[k])
        /\ BlankLines = 1 => lines[framing + indexed + 1] = <<>>

\* C26: for a non-empty file list, the endLine of the last index entry is the
\* number of lines of content (split on "\n"), so no line follows the last
\* file's content, and every line of content is prompt framing, index block,
\* the blank line after the index, a separator, or inside exactly one entry's
\* range; content ends with "\n" exactly when the last file is empty, is a
\* single newline, or ends with two newlines.
C26_LastEntryEndsContent ==
    (Done /\ files # <<>>) =>
        /\ LinesAccountedFor
        /\ endsWith(result.content, NL) <=> LastStoredEndsInNewline

\* C26 as stated: the same, with no newline at the end of content whatever the
\* files are
C26_NoTrailingNewline ==
    (Done /\ files # <<>>) =>
        /\ LinesAccountedFor
        /\ ~endsWith(result.content, NL)

\* two files under a two-line prompt and an index, the last one ending with
\* two newlines: content ends with "\n" and the last entry ends on that line
C26_Witness ==
    /\ Done
    /\ Len(files) = 2
    /\ options.includeIndex
    /\ FramingLines = 5
    /\ TextOf(2) = <<NL, NL>>
    /\ result.index[2].endLine = Len(contentLines)
    /\ endsWith(result.content, NL)

-----------------------------------------------------------------------------
(* Claims about resolvePatterns, checked under SpecResolve *)

Resolved == rpc = "done"

\* the patterns of the configuration by prefix, as written by the user
RawOf(prefix) ==
    {Tail(q) : q \in {r \in Range(rawPatterns(config)) : r # <<>> /\ r[1] = prefix}}
RawInclude == {q \in Range(rawPatterns(config)) : q = <<>> \/ q[1] \notin {"!", "+"}}

ForceMatched(f) == \E q \in RawOf("+") : globMatches(q, f)
IncludeMatched(f) == \E q \in RawInclude : globMatches(q, f)
ExcludeMatched(f) == \E q \in RawOf("!") : picomatch(q, f)
Ignored(f) ==
    cwd.gitignore.defined /\ ignores(parseIgnore(cwd.gitignore.text), f)
Occurrences(f) == Cardinality({k \in 1..Len(resolved) : resolved[k] = f})

\* C9: the list resolvePatterns returns is sorted ascending and has no duplicate
\* path; a path matched by an include pattern and by a force pattern appears once.
C9_SortedNoDuplicates ==
    Resolved =>
        /\ \A i \in 1..(Len(resolved) - 1) : StrLess(resolved[i], resolved[i + 1])
        /\ \A i, j \in 1..Len(resolved) : i # j => resolved[i] # resolved[j]
        /\ \A f \in Range(cwd.listing) :
            (IncludeMatched(f) /\ ForceMatched(f) /\ ~ExcludeMatched(f)
                 /\ ~Ignored(f) /\ ~isBinary(cwd.bytes[f]))
                => Occurrences(f) = 1

C9_Witness ==
    /\ Resolved
    /\ Len(resolved) >= 3
    /\ fileSet # resolved
    /\ \E f \in Range(resolved) : IncludeMatched(f) /\ ForceMatched(f) /\ ~Ignored(f)

\* C10: a file matched by a `+` pattern that matches no exclude pattern and is
\* not binary is in the result even when the ignore rules ignore it, also under
\* a directory the traversal pruning skips; an ignored file that no `+` pattern
\* matches is absent.
C10_ForceBypassesIgnore ==
    Resolved =>
        \A f \in Range(cwd.listing) :
            /\ (ForceMatched(f) /\ ~ExcludeMatched(f) /\ ~isBinary(cwd.bytes[f]))
                   => f \in Range(resolved)
            /\ (Ignored(f) /\ ~ForceMatched(f)) => f \notin Range(resolved)

C10_Witness ==
    /\ Resolved
    /\ gitignore.globPatterns = <<<<"*", "*", "/", "b", "/", "*", "*">>>>
    /\ patterns.include = <<PatAll>>
    /\ Ignored(FileBK)
    /\ ForceMatched(FileBK)
    /\ FileBK \in Range(resolved)
    /\ FileBX \in Range(cwd.listing)
    /\ FileBX \notin Range(resolved)

\* C11: no path resolvePatterns returns is matched by an exclude matcher (the
\* picomatch matcher built from a `!` pattern), whether an include pattern or a
\* force pattern matched the path.
C11_ExcludeVetoes ==
    Resolved => \A f \in Range(resolved) : ~ExcludeMatched(f)

\* a `+` pattern matches b/x, the exclude pattern removes it and leaves its sibling
C11_Witness ==
    /\ Resolved
    /\ config.shape = "array"
    /\ config.list = <<PatForceB, PatNotBX>>
    /\ FileBX \in Range(cwd.listing)
    /\ cwd.bytes[FileBX] = TextBytes
    /\ ForceMatched(FileBX)
    /\ ExcludeMatched(FileBX)
    /\ FileBX \notin Range(resolved)
    /\ FileBK \in Range(resolved)

\* a listed file that an expansion of this run matched and neither an exclude
\* matcher nor (for an include match) the ignore evaluator rejected
IncludeCandidate(f) ==
    /\ f \in Range(glob(patterns.include, cwd, gitignore.globPatterns))
    /\ ~isExcluded(f, patterns.exclude)
    /\ ~ignores(gitignore.ignore, f)
ForceCandidate(f) ==
    /\ f \in Range(glob(patterns.force, cwd, <<>>))
    /\ ~isExcluded(f, patterns.exclude)

\* byte number n of the file (counted from 1) is a null byte for some n among the
\* first min(size, 8192)
NullInPrefix(bytes) ==
    /\ bytes.size > 0
    /\ \E o \in bytes.nulls : o + 1 <= Min(bytes.size, 8192)

\* C12: a file that an include or a force pattern brought in and no other filter
\* rejected is left out of the result exactly when it is non-empty and one of its
\* first min(size, 8192) bytes is a null byte; an empty file and a file whose
\* null bytes all lie past byte 8192 are kept.
C12_BinaryExactly ==
    Resolved =>
        \A f \in Range(cwd.listing) :
            /\ IncludeCandidate(f) => (f \notin Range(resolved) <=> NullInPrefix(cwd.bytes[f]))
            /\ ForceCandidate(f) => (f \notin Range(resolved) <=> NullInPrefix(cwd.bytes[f]))
            /\ (IncludeCandidate(f) \/ ForceCandidate(f))
                   => /\ cwd.bytes[f].size = 0 => f \in Range(resolved)
                      /\ (\A o \in cwd.bytes[f].nulls : o >= 8192) => f \in Range(resolved)

\* an include match with a null byte as byte 8192 and a force match of one null
\* byte are left out; a force match with null bytes past byte 8192 and an empty
\* include match are kept
C12_Witness ==
    /\ Resolved
    /\ {FileA, FileBK, FileBX, FileSA} \subseteq Range(cwd.listing)
    /\ cwd.bytes[FileA] = LastCheckedNull
    /\ IncludeCandidate(FileA) /\ FileA \notin Range(resolved)
    /\ cwd.bytes[FileBX] = OneNull
    /\ ForceCandidate(FileBX) /\ ~IncludeCandidate(FileBX) /\ FileBX \notin Range(resolved)
    /\ cwd.bytes[FileBK] = LateNull
    /\ ForceCandidate(FileBK) /\ FileBK \in Range(resolved)
    /\ cwd.bytes[FileSA] = EmptyBytes
    /\ IncludeCandidate(FileSA) /\ FileSA \in Range(resolved)

\* the .gitignore has a line whose trimmed text starts with "!"
HasNegationLine ==
    /\ cwd.gitignore.defined
    /\ \E line \in Range(split(cwd.gitignore.text, NL)) : startsWith(trim(line), <<"!">>)

\* C13: when the .gitignore has a negation line no prune glob is derived, and a
\* file only include patterns match (not excluded, not binary) is in the result
\* exactly when the ignore evaluator does not ignore it: a file re-included by a
\* negation is returned, its ignored siblings are not.
C13_NegationDisablesPruning ==
    (rpc # "start" /\ HasNegationLine) =>
        /\ gitignore.globPatterns = <<>>
        /\ Resolved =>
               \A f \in Range(cwd.listing) :
                   (IncludeMatched(f) /\ ~ForceMatched(f) /\ ~ExcludeMatched(f)
                        /\ ~isBinary(cwd.bytes[f]))
                       => (f \in Range(resolved) <=> ~Ignored(f))

\* `b/**` then `!b/k`: b/k is returned, its sibling b/x is not
C13_Witness ==
    /\ Resolved
    /\ cwd.gitignore = Some(IgnoreNegation)
    /\ {FileBK, FileBX} \subseteq Range(cwd.listing)
    /\ cwd.bytes[FileBX] = TextBytes
    /\ IncludeMatched(FileBK) /\ IncludeMatched(FileBX)
    /\ RawOf("+") = {} /\ RawOf("!") = {}
    /\ Ignored(FileBX) /\ ~Ignored(FileBK)
    /\ FileBK \in Range(resolved)
    /\ FileBX \notin Range(resolved)

\* C14: the list resolvePatterns returns with the prune globs of
\* gitignoreToGlobPatterns passed to the include expansion equals the list
\* returned when no prune glob is passed and every include match is left to the
\* ignore evaluator.
C14_PruningPreservesResult ==
    Resolved => resolved = resolvePatternsUnpruned(config, cwd)

\* C16: the list returned for a configuration equals the list returned for the
\* same patterns written as an array and as an object with an `include` array,
\* and, for a single pattern, written as a string and as an object with an
\* `include` string; the object's outfile, index and prompt fields do not
\* change the list.
C16_ShapesEquivalent ==
    Resolved =>
        LET raw == rawPatterns(config)
        IN  /\ resolved = resolvePatterns(ConfigOf("array", <<>>, raw, NoFields), cwd)
            /\ \A f \in ObjectFields :
                   resolved = resolvePatterns(ConfigOf("object-array", <<>>, raw, f), cwd)
            /\ Len(raw) = 1 =>
                   /\ resolved = resolvePatterns(ConfigOf("string", raw[1], <<>>, NoFields), cwd)
                   /\ \A f \in ObjectFields :
                          resolved = resolvePatterns(ConfigOf("object-string", raw[1], <<>>, f), cwd)

\* an object with two patterns and all optional fields set, resolved to the
\* non-empty list of the bare array
C16_Witness ==
    /\ Resolved
    /\ config.shape = "object-array"
    /\ config.list = <<PatS, PatForceB>>
    /\ config.index = Set(FALSE)
    /\ config.prompt = Some(<<"p">>)
    /\ config.outfile = Some(<<"o">>)
    /\ Len(resolved) >= 3
    /\ resolved = resolvePatterns(ConfigOf("array", <<>>, config.list, NoFields), cwd)

-----------------------------------------------------------------------------
(* Claims about a pattern used as its own exclude, checked under SpecVeto *)

\* C28: include matching and exclude matching agree on every path: for every
\* pattern p and working directory, resolvePatterns([p, "!" + p]) and
\* resolvePatterns(["+" + p, "!" + p]) return the empty list; a dotfile that the
\* include or force expansion matches is vetoed by the same pattern used as an
\* exclude.
C28_ExcludeAgreesWithInclude == rpc = "done" => resolved = <<>>

-----------------------------------------------------------------------------
(* Claims about the order of the patterns, checked under SpecOrder *)

\* the orders a list of n patterns can be written in
Orders(n) == {f \in [1..n -> 1..n] : \A j, k \in 1..n : f[j] = f[k] => j = k}

\* the configuration with its pattern list written in another order
Permuted(cfg, f) == [cfg EXCEPT !.list = [k \in 1..Len(cfg.list) |-> cfg.list[f[k]]]]

\* C27: the result of resolvePatterns does not depend on the order of the
\* patterns: for every permutation of a pattern array (plain, `!` and `+`
\* patterns mixed) the returned list is the same, so an exclude pattern vetoes
\* the matches of include and force patterns written after it as it does those
\* written before it.
C27_OrderIndependent ==
    (rpc = "done" /\ config.shape \in {"array", "object-array"}) =>
        \A f \in Orders(Len(config.list)) :
            resolvePatterns(Permuted(config, f), cwd) = resolved

\* an exclude pattern written before the force pattern whose match it vetoes:
\* b/x is left out, its sibling b/k is returned
C27_Witness ==
    /\ rpc = "done"
    /\ config.shape = "array"
    /\ config.list = <<PatNotBX, PatForceB>>
    /\ FileBX \in Range(cwd.listing)
    /\ cwd.bytes[FileBX] = TextBytes
    /\ FileBX \notin Range(resolved)
    /\ FileBK \in Range(resolved)

-----------------------------------------------------------------------------
(* Claims about repeated createBundle calls, checked under SpecRerun *)

SameArguments ==
    /\ previous.files = files
    /\ previous.fsText = fsText
    /\ previous.options = options

\* C17: a createBundle call that follows another call returns what its own file
\* list, file contents and options determine, whatever the earlier call was; with
\* the same three it returns the content and the index the earlier call returned.
C17_Deterministic ==
    (Done /\ previous.called) =>
        /\ result = createBundle(fsText, files, options)
        /\ SameArguments =>
               /\ result.content = previous.result.content
               /\ result.index = previous.result.index

\* two finished calls with the same two files, a prompt and the index
C17_Witness ==
    /\ Done
    /\ previous.called
    /\ SameArguments
    /\ Len(files) = 2
    /\ options.includeIndex
    /\ options.prompt.defined
    /\ result.content # <<>>
    /\ result = previous.result

\* a finished call after a call for another bundle
C17_WitnessOther ==
    /\ Done
    /\ previous.called
    /\ previous.files # files
    /\ Len(previous.result.index) = 2
    /\ Len(result.index) = 1

-----------------------------------------------------------------------------
(* Claims about bundleOne, checked under SpecBundleOne *)

Reverse(xs) == [k \in 1..Len(xs) |-> xs[Len(xs) + 1 - k]]

\* the stat, open or read failures of the run
GitignoreUnreadable == cwd.gitignore.defined /\ GitignoreFile \in cwd.unreadable
IncludeReadFailure ==
    isBinaryRejects(includeCandidates(patterns, gitignore, cwd), cwd)
ForceReadFailure ==
    isBinaryRejects(forceCandidates(patterns, cwd), cwd)
PromptReadFailure == promptReadFails(getPrompt(config), cwd)
BundleReadFailure == \E k \in 1..Len(files) : files[k] \notin DOMAIN fsText

Rejected == rpc = "rejected" \/ pc = "rejected"

\* C18: the operation goes past a step only if no filesystem access of that step
\* failed, and a rejected operation has no BundleResult: a .gitignore that is
\* there but cannot be read, an unreadable candidate file, an unreadable prompt
\* file and a resolved file that cannot be read each reject it; only a
\* .gitignore that is not there is taken as an empty rule set.
C18_RaisesOnFirstFailure ==
    /\ GitignoreUnreadable => rpc \in {"start", "rejected"}
    /\ (~cwd.gitignore.defined /\ rpc \notin {"start", "rejected"})
           => gitignore = [ignore |-> <<>>, globPatterns |-> <<>>]
    /\ rpc \in {"force", "sort", "done"} => ~IncludeReadFailure
    /\ rpc \in {"sort", "done"} => ~ForceReadFailure
    /\ pc \in {"loop", "done"} => ~PromptReadFailure
    /\ Done => ~BundleReadFailure
    /\ Rejected => result = NoResult

\* the spec has `!` patterns only / no include or force pattern matches a file
OnlyExcludes == \A q \in Range(rawPatterns(config)) : q[1] = "!"
NothingMatches == \A f \in Range(cwd.listing) : ~IncludeMatched(f) /\ ~ForceMatched(f)

\* C19: for a spec of `!` patterns only, and for a spec none of whose patterns
\* matches a file, resolvePatterns does not reject and returns the empty list,
\* and the bundle of such a spec has no entry and, with the index, the content
\* `# Index` / `# (empty)` (after the prompt, if any).
C19_EmptyWithoutError ==
    (OnlyExcludes \/ NothingMatches) =>
        /\ rpc # "rejected"
        /\ rpc = "done" => resolved = <<>>
        /\ Done =>
               /\ result.index = <<>>
               /\ options.includeIndex
                      => result.content = withPrompt(normalizePrompt(options.prompt), IndexEmpty)

\* C20: in a bundleOne result the index has one entry per resolved path, entry
\* i has the i-th path of the sorted list and the line before its content is
\* the separator numbered i for that path, so the index paths are strictly
\* ascending whatever the order of the patterns; createBundle keeps the order
\* of any list it is given (here: the same files in reverse order).
C20_BundleOrder ==
    Done =>
        /\ files = resolved
        /\ Len(result.index) = Len(resolved)
        /\ \A i \in 1..Len(resolved) :
               /\ result.index[i].path = resolved[i]
               /\ contentLines[result.index[i].startLine - 1] = formatSeparator(i, resolved[i])
        /\ \A i \in 1..(Len(result.index) - 1) :
               StrLess(result.index[i].path, result.index[i + 1].path)
        /\ LET rev   == Reverse(files)
               r     == createBundle(fsText, rev, options)
               lines == SplitLines(r.content)
           IN  /\ Len(r.index) = Len(rev)
               /\ \A i \in 1..Len(rev) :
                      /\ r.index[i].path = rev[i]
                      /\ lines[r.index[i].startLine - 1] = formatSeparator(i, rev[i])

\* the force pattern written first: the matches are collected in another order
\* than the sorted one, and the bundle lists all four files
C20_Witness ==
    /\ Done
    /\ rawPatterns(config) = <<PatForceB, PatAll>>
    /\ fileSet # resolved
    /\ Len(result.index) = 4
    /\ result.index[1].path = FileA
    /\ result.index[4].path = FileSA

\* the prompt the configuration asks for, read off the configuration and the
\* files: none for a string or an array and for a missing, empty or blank
\* prompt; the trimmed text of the file for a path; the text itself otherwise
ConfiguredPrompt ==
    IF config.shape \in {"string", "array"} \/ ~config.prompt.defined
           \/ trim(config.prompt.text) = <<>>
    THEN Undefined
    ELSE LET t    == config.prompt.text
             file == IF startsWith(t, <<".", "/">>)
                         THEN [base |-> "cwd", name |-> SubSeq(t, 3, Len(t))]
                     ELSE IF startsWith(t, <<".", ".", "/">>)
                         THEN [base |-> "parent", name |-> SubSeq(t, 4, Len(t))]
                     ELSE [base |-> "home", name |-> SubSeq(t, 3, Len(t))]
             text == IF isPromptPath(t) THEN cwd.promptFiles[file] ELSE t
         IN  IF trim(text) = <<>> THEN Undefined ELSE Some(trim(text))

PromptFileMissing ==
    /\ config.shape \in {"object-string", "object-array"}
    /\ config.prompt.defined
    /\ \/ /\ startsWith(config.prompt.text, <<".", "/">>)
          /\ [base |-> "cwd", name |-> SubSeq(config.prompt.text, 3, Len(config.prompt.text))]
                 \notin DOMAIN cwd.promptFiles
       \/ /\ startsWith(config.prompt.text, <<".", ".", "/">>)
          /\ [base |-> "parent", name |-> SubSeq(config.prompt.text, 4, Len(config.prompt.text))]
                 \notin DOMAIN cwd.promptFiles
       \/ /\ startsWith(config.prompt.text, <<"~", "/">>)
          /\ [base |-> "home", name |-> SubSeq(config.prompt.text, 3, Len(config.prompt.text))]
                 \notin DOMAIN cwd.promptFiles

\* C21: createBundle is entered with the prompt the configuration asks for (the
\* trimmed text of the file a ./, ../ or ~/ path names, no prompt for a blank
\* file; the text of any other non-blank prompt; no prompt for string and array
\* configurations and for a missing, empty or blank prompt) and the finished
\* bundle starts with it; when the prompt file does not exist createBundle is
\* never entered and bundleOne has no result.
C21_PromptResolved ==
    /\ PromptFileMissing => (pc \in {"idle", "rejected"} /\ result = NoResult)
    /\ pc \in {"loop", "done"} => options.prompt = ConfiguredPrompt
    /\ Done =>
           IF ConfiguredPrompt.defined
           THEN startsWith(result.content, ConfiguredPrompt.text \o PromptFrame)
           ELSE result.content = createBundle(fsText, files,
                                     [options EXCEPT !.prompt = Undefined]).content

\* the prompt `./q` gives the trimmed text of q in the working directory
C21_Witness ==
    /\ Done
    /\ config.prompt = Some(PromptFileQ)
    /\ cwd.promptFiles = PromptFiles
    /\ Len(files) >= 2
    /\ startsWith(result.content, <<"h", NL, NL, "-", "-", "-", NL, NL, "#", " ", "I">>)

\* the prompt `~/q` names a blank file: no prompt
C21_WitnessHome ==
    /\ Done
    /\ config.prompt = Some(PromptHomeQ)
    /\ cwd.promptFiles = PromptFiles
    /\ Len(files) >= 2
    /\ startsWith(result.content, <<"#", " ", "I">>)

\* the prompt `../q` names no file: bundleOne rejects
C21_WitnessMissing ==
    /\ pc = "rejected"
    /\ rpc = "done"
    /\ config.prompt = Some(PromptParentQ)
    /\ Len(resolved) >= 2

-----------------------------------------------------------------------------
(* Claims about the command line, checked under SpecCli *)

\* the run has ended without an error after processing at least one bundle
Completed == cpc = "exited" /\ exitCode = 0 /\ bundleNames # <<>>

\* the per-bundle lines printed, in order
bundleLines == SelectSeq(console, LAMBDA m : m.kind = "bundle")

EffectsOf(ops) == SelectSeq(effects, LAMBDA e : e.op \in ops)

\* C22: with --dry-run nothing outside the process changes, whatever
\* emptyOutDir resolves to and whatever upload is configured: the output
\* directory is not emptied, no directory is created, no file written, no
\* authentication and no upload attempted; every requested bundle is still
\* assembled and its file and line counts are printed.
C22_DryRunChangesNothing ==
    args.dryRun =>
        /\ effects = <<>>
        /\ Completed =>
               /\ Len(outputs) = Len(bundleNames)
               /\ Len(bundleLines) = Len(bundleNames)
               /\ \A k \in 1..Len(bundleNames) :
                      LET r == bundleOne(property(cliConfig.bundles, bundleNames[k]),
                                         CliDir, CliTexts)
                      IN  /\ outputs[k] = [name |-> bundleNames[k], result |-> r]
                          /\ bundleLines[k] =
                                 [kind |-> "bundle", name |-> bundleNames[k],
                                  files |-> Len(r.index), lines |-> sumLines(r.index)]

\* a dry run of two bundles that ends, with --emptyOutDir, an output directory
\* that has entries and an upload destination that excludes nothing
C22_Witness ==
    /\ args.dryRun
    /\ Completed
    /\ Len(outputs) = 2
    /\ args.emptyOutDirFlag = Set(TRUE)
    /\ outDirState.entries = {".git", "old.txt"}
    /\ ~args.noUpload
    /\ cliConfig.upload = <<Destination("c1", {})>>

\* the names the run is about: the requested ones, or every configured one
namesOfRun ==
    IF Len(args.requestedBundles) > 0 THEN args.requestedBundles ELSE keys(cliConfig.bundles)

\* the names of the run that are no bundle of the configuration
notConfigured ==
    {namesOfRun[k] : k \in 1..Len(namesOfRun)} \ {cliConfig.bundles[k].name : k \in 1..Len(cliConfig.bundles)}

\* C23: when a requested name is no bundle of the configuration, the run prints
\* `Unknown bundle: <name>` and exits with code 1 before any effect: nothing is
\* emptied, assembled, written or uploaded, even when other requested names are
\* valid. With no names requested, the bundles processed are all the configured
\* ones.
C23_UnknownNameRejected ==
    cpc # "start" =>
        /\ notConfigured # {} =>
               /\ cpc = "exited"
               /\ exitCode = 1
               /\ \E n \in notConfigured : console = <<Message("Unknown bundle", n)>>
               /\ effects = <<>>
               /\ outputs = <<>>
               /\ outDirState \in {[exists |-> FALSE, entries |-> {}],
                                   [exists |-> TRUE, entries |-> {".git", "old.txt"}]}
        /\ Len(args.requestedBundles) = 0 => bundleNames = keys(cliConfig.bundles)

\* the run got past the validation of the names and has bundles to process
PassedValidation ==
    /\ cpc # "start"
    /\ bundleNames # <<>>
    /\ \A k \in 1..Len(console) : console[k].kind # "Unknown bundle"

\* outDir lies inside the project root: the root's directories lead to it
LiesInsideRoot ==
    LET r == normalizeSegs(<<>>, cliConfig.root.segs)
        o == resolve(cliConfig.root, cliConfig.outDir).segs
    IN  Len(r) <= Len(o) /\ SubSeq(o, 1, Len(r)) = r

\* emptyOutDir by precedence: the flag, the configuration, inside the root
ResolvedEmptyOutDir ==
    IF args.emptyOutDirFlag.defined THEN args.emptyOutDirFlag.value
    ELSE IF cliConfig.emptyOutDir.defined THEN cliConfig.emptyOutDir.value
    ELSE LiesInsideRoot

Emptied == \E k \in 1..Len(effects) : effects[k].op = "emptyDirectory"

\* C24: the output directory is emptied, before bundling, exactly when the
\* resolved emptyOutDir is true and the run is not a dry run; emptyOutDir is the
\* flag if given, else the configured value, else true exactly when outDir lies
\* inside the project root. Emptying removes every entry but `.git`, and an
\* output directory that does not exist is no error.
C24_EmptiedExactlyWhen ==
    PassedValidation =>
        /\ Emptied <=> (ResolvedEmptyOutDir /\ ~args.dryRun)
        /\ Emptied =>
               /\ effects[1].op = "emptyDirectory"
               /\ \A k \in 2..Len(effects) : effects[k].op # "emptyDirectory"
               /\ outDirState \in {[exists |-> FALSE, entries |-> {}],
                                   [exists |-> TRUE, entries |-> {".git"}]}
        /\ ~Emptied =>
               outDirState \in {[exists |-> FALSE, entries |-> {}],
                                [exists |-> TRUE, entries |-> {".git", "old.txt"}]}

\* the names of the bundles of the run, in order, that a destination does not
\* exclude
NotExcluded(d) ==
    SelectSeq(bundleNames, LAMBDA n : n \notin cliConfig.upload[d].exclude)

\* the names uploaded to a destination, in the order of the uploads
UploadedTo(d) ==
    LET ups == SelectSeq(effects, LAMBDA e : e.op = "upload" /\ e.destination = d)
    IN  [k \in 1..Len(ups) |-> ups[k].name]

\* the run printed no error of an authentication or an upload
NoUploadError == \A k \in 1..Len(console) : console[k].kind \notin {"OAuth error", "error"}

\* C25: a bundle named in a destination's `exclude` is never uploaded to it;
\* the other bundles of the run are uploaded to it once each, in bundle order;
\* a destination that excludes every bundle of the run sees no authentication
\* and no upload; and there is an upload only when upload is configured,
\* --no-upload is absent and the run is not a dry run.
C25_ExcludeRespected ==
    /\ \A d \in 1..Len(cliConfig.upload) :
           /\ \A k \in 1..Len(UploadedTo(d)) :
                  UploadedTo(d)[k] \notin cliConfig.upload[d].exclude
           /\ Len(UploadedTo(d)) <= Len(NotExcluded(d))
           /\ UploadedTo(d) = SubSeq(NotExcluded(d), 1, Len(UploadedTo(d)))
           /\ (Completed /\ NoUploadError /\ ~args.dryRun /\ ~args.noUpload) =>
                  UploadedTo(d) = NotExcluded(d)
           /\ NotExcluded(d) = <<>> =>
                  \A k \in 1..Len(effects) : effects[k].destination # d
    /\ EffectsOf({"upload", "ensureAuthenticated"}) # <<>> =>
           cliConfig.upload # <<>> /\ ~args.noUpload /\ ~args.dryRun

\* a run of s and a that ends: the first destination excludes both and is left
\* alone, the second one excludes s and receives a
C25_Witness ==
    /\ Completed
    /\ NoUploadError
    /\ bundleNames = <<"s", "a">>
    /\ Len(cliConfig.upload) = 2
    /\ cliConfig.upload[1].exclude = {"a", "s"}
    /\ UploadedTo(1) = <<>>
    /\ UploadedTo(2) = <<"a">>

\* a run where nothing is excluded: both bundles are uploaded, in bundle order
C25_WitnessAll ==
    /\ Completed
    /\ NoUploadError
    /\ bundleNames = <<"s", "a">>
    /\ UploadedTo(1) = <<"s", "a">>

\* a bundleOne call of the run was rejected
AssemblyFailed ==
    /\ cpc = "exited"
    /\ Len(outputs) < Len(bundleNames)
    /\ PassedValidation

\* C29: every requested bundle is assembled before any output file is written:
\* once a directory has been created or a file written, every bundle name of
\* the run has its output; when assembling a bundle fails the process exits
\* with code 1, no bundle file has been written and nothing uploaded (the
\* output directory may have been emptied); an authentication or an upload
\* comes only after the file of every bundle of the run has been written.
C29_AssembleThenWriteThenUpload ==
    /\ EffectsOf({"mkdir", "writeFile"}) # <<>> => Len(outputs) = Len(bundleNames)
    /\ AssemblyFailed =>
           /\ exitCode = 1
           /\ EffectsOf({"mkdir", "writeFile", "ensureAuthenticated", "upload"}) = <<>>
    /\ EffectsOf({"ensureAuthenticated", "upload"}) # <<>> =>
           /\ Len(EffectsOf({"writeFile"})) = Len(bundleNames)
           /\ \A k \in 1..Len(bundleNames) : EffectsOf({"writeFile"})[k].name = bundleNames[k]
           /\ \A j, k \in 1..Len(effects) :
                  (effects[j].op = "writeFile" /\ effects[k].op \in {"ensureAuthenticated", "upload"})
                      => j < k

\* the second bundle of a run fails after the first was assembled and the
\* output directory emptied: nothing was written
C29_Witness ==
    /\ AssemblyFailed
    /\ Len(outputs) = 1
    /\ Emptied
    /\ outDirState.entries = {".git"}
    /\ cliConfig.upload # <<>>
    /\ ~args.noUpload

\* both files are written and an upload was made
C29_WitnessUpload ==
    /\ Len(EffectsOf({"writeFile"})) = 2
    /\ Len(EffectsOf({"upload"})) = 1

-----------------------------------------------------------------------------
(* Claims about the stored tokens, checked under SpecTokens *)

\* a token set whose expiry time has come
ExpiredAt(tokens, now) == tokens.expires_at.defined /\ now >= tokens.expires_at.value

\* the stored access token is expired or within 5 minutes of its expiry
NeedsRefresh(tokens, now) ==
    tokens.expires_at.defined /\ now + 5 >= tokens.expires_at.value

\* C30: getValidTokens returns only valid tokens: null when no tokens are
\* stored or the refresh fails; when the stored access token is expired or
\* within 5 minutes of its expiry it is refreshed, and the new one stored with
\* the old refresh token; the token set returned is never expired at the time of
\* the return; ensureAuthenticated starts the login exactly when getValidTokens
\* returned null.
C30_OnlyValidTokens ==
    validTokens.returned =>
        /\ ~validTokens.loaded.present => ~validTokens.tokens.present
        /\ (validTokens.loaded.present /\ NeedsRefresh(validTokens.loaded, Now)) =>
               IF response.ok
               THEN /\ validTokens.refreshed
                    /\ saved = <<validTokens.tokens>>
                    /\ credentials = validTokens.tokens
                    /\ validTokens.tokens.refresh_token = validTokens.loaded.refresh_token
               ELSE ~validTokens.tokens.present
        /\ validTokens.tokens.present => ~ExpiredAt(validTokens.tokens, validTokens.at)
        /\ tpc = "done" => (loginStarted <=> ~validTokens.tokens.present)

-----------------------------------------------------------------------------
(* Claims about normalizePatterns, checked under SpecNormalize *)

Normalized == rpc = "include"

\* the set a raw pattern belongs to by its first character, and what is stored
SetOf(q) == IF q[1] = "!" THEN "exclude" ELSE IF q[1] = "+" THEN "force" ELSE "include"
StoredOf(q) == IF q[1] \in {"!", "+"} THEN SubSeq(q, 2, Len(q)) ELSE q

\* C15: every raw pattern is stored in exactly one of include, exclude, force,
\* chosen by its first character only, without that character for `!` and `+`
\* and verbatim otherwise (`!+x` is stored in exclude as `+x`, `+!x` in force as
\* `!x`); each set keeps the input order, and the three sets together have as
\* many elements as the input.
C15_NormalizeByFirstCharacter ==
    Normalized =>
        LET raw == rawPatterns(config)
        IN  /\ Len(patterns.include) + Len(patterns.exclude) + Len(patterns.force) = Len(raw)
            /\ \A i \in 1..Len(raw) :
                   LET c == SetOf(raw[i])
                       k == Cardinality({j \in 1..i : SetOf(raw[j]) = c})
                   IN  /\ k <= Len(patterns[c])
                       /\ patterns[c][k] = StoredOf(raw[i])
            /\ \A i \in 1..Len(raw) :
                   /\ raw[i] = NotForceX => ForceX \in Range(patterns.exclude)
                   /\ raw[i] = ForceNotX => NotX \in Range(patterns.force)

C15_Witness ==
    /\ Normalized
    /\ rawPatterns(config) = <<ForceNotX, NotForceX>>
    /\ patterns = [include |-> <<>>, exclude |-> <<ForceX>>, force |-> <<NotX>>]

====
